---- MODULE Spec2Model ----
(***************************************************************************)
(* Verification model of MaaUniversalUI-Alpha's control core.              *)
(*                                                                         *)
(* Part I  - the engine lifecycle (backend/engine/service.go): Start(),    *)
(*           Stop() and the background task executor, as concurrent        *)
(*           processes over the mutex-guarded service fields.              *)
(* Part II - the option walkers and the config synchronizer of the pi      *)
(*           service (collectOptionDefaults, collectExpectedOptions,       *)
(*           syncTaskConfigOptions, syncConfigOptions, initDefaultConfig). *)
(***************************************************************************)
EXTENDS Naturals, Integers, Sequences, FiniteSets, TLC

(***************************************************************************)
(* Bounds of the lifecycle model.                                          *)
(***************************************************************************)
\* number of Start() and Stop() calls the presentation layer issues, in any mix
MaxCalls == 3
\* longest execution plan GetTaskList() returns
MaxTasks == 2

StartIds == 1..MaxCalls
\* Stop() invocations: 1..MaxCalls come from the presentation layer,
\* MaxCalls + i is the executor goroutine of Start call i running "defer s.Stop()"
StopIds == 1..(2 * MaxCalls)
ExecStop(i) == MaxCalls + i
IsExecStop(p) == p > MaxCalls
OwnerOf(p) == p - MaxCalls

HandleNames == {"tasker", "res", "ctrl", "agent", "agentCmd"}

VARIABLES
    \* ---- engine service fields (service.go:28-37) ----
    isRunning,      \* s.isRunning
    tasker,         \* s.tasker   : 0 (nil) or the Start call that created it
    res,            \* s.res
    ctrl,           \* s.ctrl
    agent,          \* s.agent
    agentCmd,       \* s.agentCmd
    \* ---- environment ----
    iface,          \* "nil" (schema not loaded), "plain", "agent" (iface.Agent != nil)
    nChecked,       \* number of checked tasks of the config that resolve against the schema
    \* ---- Start() calls and their executor goroutines ----
    pc,             \* position of Start call i
    hnd,            \* native handles created by call i: "none" (no native object: never
                    \* created, or released once), "live", "dead2" (released twice)
    plan,           \* taskList of call i: status of each item
    idx,            \* loop position of the executor of call i
    exTasker,       \* the executor's local copy of s.tasker
    \* ---- Stop() calls ----
    spc,            \* position of Stop call p
    cap,            \* references captured under the lock by Stop call p
    \* ---- notification surface ----
    events,         \* engine:running notifications emitted so far: how many with payload
                    \* true (active), how many with false (inactive), and the last payload
    errs            \* number of app:error notifications emitted by Start call i

engineVars == <<isRunning, tasker, res, ctrl, agent, agentCmd, iface, nChecked,
                pc, hnd, plan, idx, exTasker, spc, cap, events, errs>>

VARIABLES
    \* ---- pi service (part_002:32-35 and the calls made on it) ----
    v2Loaded,       \* s.v2Loaded.Interface: the validated schema
    config,         \* s.config: "nil" or the current InterfaceConfig
    changed,        \* what the last syncConfigOptions() returned
    lastOp,         \* the last call made on the service
    prevOp,         \* the call before it
    before,         \* s.config when the last call began
    nEdits          \* SaveConfig() calls made so far

syncVars == <<v2Loaded, config, changed, lastOp, prevOp, before, nEdits>>

VARIABLES
    \* ---- one call of a function of the pi service or of the engine ----
    arg,            \* the arguments of the call
    ret             \* "none" until the call has returned, then what it returned

fnVars == <<arg, ret>>

VARIABLES
    \* ---- concurrent SaveConfig() calls on the pi service (part_002:430-469) ----
    configMu,       \* s.configMu: 0 when free, or the call that holds it
    configFile,     \* the config file at s.configPath
    savePc,         \* position of SaveConfig call c
    saveData,       \* the config call c has read and encoded in saveConfig
    \* ---- the engine's lock s.mu, statement by statement (service.go:28-431) ----
    mu,             \* s.mu: the goroutine holding it for writing, those holding it for reading
    at,             \* position of each goroutine
    left            \* items of its plan each executor has yet to visit

saveVars == <<configMu, configFile, savePc, saveData>>
lockVars == <<mu, at, left>>
auxVars == <<saveVars, lockVars>>
NoCall == [fn |-> "none"]
NotReturned == [done |-> FALSE]

NoHandles == [h \in HandleNames |-> "none"]
NilFields == [h \in HandleNames |-> 0]

\* the five handle fields of the service as one record
Fields == [tasker |-> tasker, res |-> res, ctrl |-> ctrl, agent |-> agent, agentCmd |-> agentCmd]

\* x.Destroy() / Process.Kill()+Wait() through a non-nil reference
Destroyed(st) == IF st = "live" THEN "none" ELSE "dead2"

EngineInit ==
    /\ isRunning = FALSE
    /\ tasker = 0 /\ res = 0 /\ ctrl = 0 /\ agent = 0 /\ agentCmd = 0
    /\ iface \in {"nil", "plain", "agent"}
    /\ nChecked \in (IF iface = "nil" THEN {0} ELSE 0..MaxTasks)
    /\ pc = [i \in StartIds |-> "idle"]
    /\ hnd = [i \in StartIds |-> NoHandles]
    /\ plan = [i \in StartIds |-> <<>>]
    /\ idx = [i \in StartIds |-> 0]
    /\ exTasker = [i \in StartIds |-> 0]
    /\ spc = [p \in StopIds |-> "idle"]
    /\ cap = [p \in StopIds |-> NilFields]
    /\ events = [active |-> 0, inactive |-> 0, last |-> "none"]
    /\ errs = [i \in StartIds |-> 0]

\* runtime.EventsEmit(s.ctx, EventEngineRunning, payload)
Emit(payload) ==
    IF payload THEN [events EXCEPT !.active = @ + 1, !.last = "active"]
               ELSE [events EXCEPT !.inactive = @ + 1, !.last = "inactive"]

\* calls made so far by the presentation layer
CallsMade ==
    Cardinality({i \in StartIds : pc[i] # "idle"})
      + Cardinality({p \in StopIds : ~IsExecStop(p) /\ spc[p] # "idle"})

fieldVars == <<tasker, res, ctrl, agent, agentCmd>>
execVars  == <<plan, idx, exTasker>>
stopVars  == <<spc, cap>>

\* Faulty variant: a localCleanup that forgets the controller.
localCleanup_SkipCtrl(h, l) ==
    [x \in HandleNames |-> IF l[x] /\ x # "ctrl" THEN Destroyed(h[x]) ELSE h[x]]

\* localCleanup (service.go:86-103): destroy whatever the local variables l hold
localCleanup(h, l) ==
    [x \in HandleNames |-> IF l[x] THEN Destroyed(h[x]) ELSE h[x]]

(***************************************************************************)
(* Start(), service.go:49-184                                              *)
(***************************************************************************)
\* Faulty variant: a Start that does not look at isRunning before it sets it.
Start_NoGuard(i) ==
    /\ pc[i] = "idle"
    /\ (IF i = 1 THEN TRUE ELSE pc[i - 1] # "idle")
    /\ CallsMade < MaxCalls
    /\ isRunning' = TRUE
    /\ pc' = [pc EXCEPT ![i] = "emit"]
    /\ UNCHANGED <<fieldVars, iface, nChecked, hnd, execVars, stopVars, events, errs>>
    /\ UNCHANGED <<syncVars, fnVars, auxVars>>

\* lines 51-58: the check-and-set of isRunning under the write lock.
\* Calls are numbered in the order in which they take the lock.
Start(i) ==
    /\ pc[i] = "idle"
    /\ (IF i = 1 THEN TRUE ELSE pc[i - 1] # "idle")
    /\ CallsMade < MaxCalls
    /\ IF isRunning
         THEN /\ pc' = [pc EXCEPT ![i] = "noop"]
              /\ UNCHANGED isRunning
         ELSE /\ isRunning' = TRUE
              /\ pc' = [pc EXCEPT ![i] = "emit"]
    /\ UNCHANGED <<fieldVars, iface, nChecked, hnd, execVars, stopVars, events, errs>>
    /\ UNCHANGED <<syncVars, fnVars, auxVars>>

\* lines 60-61: EventsEmit(engine:running, true), after the lock is released
StartEmit(i) ==
    /\ pc[i] = "emit"
    /\ events' = Emit(TRUE)
    /\ pc' = [pc EXCEPT ![i] = "acquire"]
    /\ UNCHANGED <<isRunning, fieldVars, iface, nChecked, hnd, execVars, stopVars, errs>>
    /\ UNCHANGED <<syncVars, fnVars, auxVars>>

\* The outcome of one creation step: st is the state of the native object it
\* leaves behind, ok whether it returned a non-nil reference, and
\* panic whether it dereferenced a nil pointer.
Made   == [st |-> "live", ok |-> TRUE,  panic |-> FALSE]
Failed == [st |-> "none", ok |-> FALSE, panic |-> FALSE]
Panics == [st |-> "none", ok |-> FALSE, panic |-> TRUE]

\* line 77: maa.NewTasker(); nil when the native creation fails
NewTasker == {Made, Failed}

\* createRes, service.go:186-219: the resource with every bundle posted, or an
\* error with no resource left behind (NewResource returned nil, or
\* getExecutableDir/PostBundle failed and res.Destroy() ran)
createRes == {Made, Failed}

\* createCtrl / createAdbCtrl / createWin32Ctrl, service.go:221-329: the connected
\* controller; or an error with no controller left behind (unsupported type, no
\* window, bad regex or method name, nil instance, or PostConnect failed and
\* ctrl.Destroy() ran); or a nil dereference of piConf.Adb (line 233) or of
\* win32Ctrl.Win32 (line 284)
createCtrl == {Made, Failed, Panics}

\* createAgent, service.go:331-374: the connected agent client and its child
\* process; or an error with neither left behind (NewAgentClient returned nil;
\* BindResource, getExecutableDir or cmd.Start failed and agent.Destroy() ran;
\* Connect failed and agent.Destroy(), Process.Kill(), cmd.Wait() ran)
createAgent ==
    {[agent |-> Made,   agentCmd |-> Made],
     [agent |-> Failed, agentCmd |-> Failed]}

\* lines 139-146: tasker.BindResource(res) and tasker.BindController(ctrl)
\* succeed or not; a nil tasker is dereferenced
bindTasker(t) == IF t.ok THEN {"publish", "fail"} ELSE {"panicked"}

\* The acquisition sequence, lines 77-146, on interface f: the set of its
\* outcomes [h: handles left behind, l: local variables, next: where Start goes].
Acquisition(f) ==
    LET Out(t, r, c, a, k, n) ==
            [h |-> [tasker |-> t.st, res |-> r.st, ctrl |-> c.st,
                    agent |-> a.st, agentCmd |-> k.st],
             l |-> [tasker |-> t.ok, res |-> r.ok, ctrl |-> c.ok,
                    agent |-> a.ok, agentCmd |-> k.ok],
             next |-> n]
        None == Failed
    IN UNION { IF f = "nil"
                 THEN {Out(t, None, None, None, None, "fail")}             \* lines 108-111
                 ELSE UNION { IF ~r.ok
                   THEN {Out(t, r, None, None, None, "fail")}              \* lines 118-121
                   ELSE UNION { IF c.panic
                     THEN {Out(t, r, c, None, None, "panicked")}
                     ELSE IF ~c.ok
                     THEN {Out(t, r, c, None, None, "fail")}               \* lines 125-128
                     ELSE IF f = "agent"
                     THEN UNION { IF ~a.agent.ok
                            THEN {Out(t, r, c, a.agent, a.agentCmd, "fail")}  \* lines 133-136
                            ELSE {Out(t, r, c, a.agent, a.agentCmd, n) : n \in bindTasker(t)}
                          : a \in createAgent }
                     ELSE {Out(t, r, c, None, None, n) : n \in bindTasker(t)}
                   : c \in createCtrl }
                 : r \in createRes }
             : t \in NewTasker }

\* handleInitError, lines 64-73, for a call whose acquisition left handles h in
\* local variables l: the error notification, cleanupFunc(), and
\* isRunning = false under the lock
handleInitError(i, h, l) ==
    /\ errs' = [errs EXCEPT ![i] = @ + 1]
    /\ hnd' = [hnd EXCEPT ![i] = localCleanup(h, l)]
    /\ isRunning' = FALSE
    /\ pc' = [pc EXCEPT ![i] = "failEmit"]
    /\ UNCHANGED <<fieldVars, execVars>>

\* GetTaskList() at line 163: the plan of the checked tasks, all pending
GetTaskList == [k \in 1..nChecked |-> "pending"]

\* Faulty variant: publication without the double-check of lines 149-154.
StartPublish_NoRecheck(i, h, l) ==
    /\ errs' = errs
    /\ hnd' = [hnd EXCEPT ![i] = h]
    /\ tasker' = (IF l["tasker"] THEN i ELSE 0)
    /\ res' = (IF l["res"] THEN i ELSE 0)
    /\ ctrl' = (IF l["ctrl"] THEN i ELSE 0)
    /\ agent' = (IF l["agent"] THEN i ELSE 0)
    /\ agentCmd' = (IF l["agentCmd"] THEN i ELSE 0)
    /\ plan' = [plan EXCEPT ![i] = GetTaskList]
    /\ idx' = [idx EXCEPT ![i] = 1]
    /\ pc' = [pc EXCEPT ![i] = "exCheck"]
    /\ UNCHANGED <<isRunning, exTasker>>

\* lines 148-165, for a call whose acquisition left handles h in local variables
\* l: the double-check under the lock. Stopped during the initialisation:
\* localCleanup() and return. Else the handles are published, the plan is built
\* and the executor goroutine is launched.
StartPublish(i, h, l) ==
    /\ errs' = errs
    /\ IF ~isRunning
         THEN /\ hnd' = [hnd EXCEPT ![i] = localCleanup(h, l)]
              /\ pc' = [pc EXCEPT ![i] = "aborted"]
              /\ UNCHANGED <<isRunning, fieldVars, execVars>>
         ELSE /\ hnd' = [hnd EXCEPT ![i] = h]
              /\ tasker' = (IF l["tasker"] THEN i ELSE 0)
              /\ res' = (IF l["res"] THEN i ELSE 0)
              /\ ctrl' = (IF l["ctrl"] THEN i ELSE 0)
              /\ agent' = (IF l["agent"] THEN i ELSE 0)
              /\ agentCmd' = (IF l["agentCmd"] THEN i ELSE 0)
              /\ plan' = [plan EXCEPT ![i] = GetTaskList]
              /\ idx' = [idx EXCEPT ![i] = 1]
              /\ pc' = [pc EXCEPT ![i] = "exCheck"]
              /\ UNCHANGED <<isRunning, exTasker>>

\* a nil pointer is dereferenced: the call never returns, what it built stays
StartPanic(i, h) ==
    /\ hnd' = [hnd EXCEPT ![i] = h]
    /\ pc' = [pc EXCEPT ![i] = "panicked"]
    /\ UNCHANGED <<isRunning, fieldVars, execVars, errs>>

\* lines 77-165. The acquisition runs outside the lock on local variables that no
\* other goroutine can see, so it is one step with the locked section that ends
\* it: the double-check and publication of lines 148-161, or the isRunning = false
\* of handleInitError.
StartAcquire(i) ==
    /\ pc[i] = "acquire"
    /\ \E o \in Acquisition(iface) :
         CASE o.next = "publish" -> StartPublish(i, o.h, o.l)
           [] o.next = "fail"    -> handleInitError(i, o.h, o.l)
           [] OTHER              -> StartPanic(i, o.h)
    /\ UNCHANGED <<iface, nChecked, stopVars, events>>
    /\ UNCHANGED <<syncVars, fnVars, auxVars>>

\* handleInitError, line 74: EventsEmit(engine:running, false); Start returns
handleInitErrorEmit(i) ==
    /\ pc[i] = "failEmit"
    /\ events' = Emit(FALSE)
    /\ pc' = [pc EXCEPT ![i] = "failed"]
    /\ UNCHANGED <<isRunning, fieldVars, iface, nChecked, hnd, execVars, stopVars, errs>>
    /\ UNCHANGED <<syncVars, fnVars, auxVars>>

(***************************************************************************)
(* The executor goroutine, service.go:165-183                              *)
(***************************************************************************)
\* a plan item is in flight: posted by PostTask and not yet completed
InFlight(i) == pc[i] = "exWait" /\ plan[i][idx[i]] = "running"

\* Faulty variant: the check of lines 174-176 without its "return".
ExecCheck_NoReturn(i) ==
    /\ pc[i] = "exCheck"
    /\ IF idx[i] > Len(plan[i])
         THEN /\ pc' = [pc EXCEPT ![i] = "exStop"]
              /\ UNCHANGED exTasker
         ELSE /\ exTasker' = [exTasker EXCEPT ![i] = tasker]
              /\ pc' = [pc EXCEPT ![i] = "exPost"]
    /\ UNCHANGED <<isRunning, fieldVars, iface, nChecked, hnd, plan, idx, stopVars, events, errs>>
    /\ UNCHANGED <<syncVars, fnVars, auxVars>>

\* lines 167-176: the loop head and the check of isRunning and s.tasker under the
\* read lock; the loop's end or a failed check leads to the deferred Stop()
ExecCheck(i) ==
    /\ pc[i] = "exCheck"
    /\ IF idx[i] > Len(plan[i]) \/ ~isRunning \/ tasker = 0
         THEN /\ pc' = [pc EXCEPT ![i] = "exStop"]
              /\ UNCHANGED exTasker
         ELSE /\ exTasker' = [exTasker EXCEPT ![i] = tasker]
              /\ pc' = [pc EXCEPT ![i] = "exPost"]
    /\ UNCHANGED <<isRunning, fieldVars, iface, nChecked, hnd, plan, idx, stopVars, events, errs>>
    /\ UNCHANGED <<syncVars, fnVars, auxVars>>

\* lines 178-179: tasker.PostTask(entry, override) on the local copy of s.tasker
ExecPost(i) ==
    /\ pc[i] = "exPost"
    /\ plan' = [plan EXCEPT ![i][idx[i]] = "running"]
    /\ pc' = [pc EXCEPT ![i] = "exWait"]
    /\ UNCHANGED <<isRunning, fieldVars, iface, nChecked, hnd, idx, exTasker, stopVars, events, errs>>
    /\ UNCHANGED <<syncVars, fnVars, auxVars>>

\* lines 179-181: Wait() returns; the job's status is recorded on the item.
\* A job that the backend is still running completes with either status; a job
\* cut short by PostStop() has its status already. Nothing reads a recorded
\* status again: the model keeps that of the last completed item and abstracts
\* the earlier ones to "done".
Recorded(tl, n, st) ==
    [k \in DOMAIN tl |->
        IF k = n THEN (IF tl[k] = "running" THEN st ELSE tl[k])
        ELSE IF k < n THEN "done" ELSE tl[k]]

\* Faulty variant: an executor that gives up at the first failed item.
ExecWait_AbortOnFailure(i) ==
    /\ pc[i] = "exWait"
    /\ \E st \in {"succeeded", "failed"} :
         /\ plan' = [plan EXCEPT ![i] = Recorded(plan[i], idx[i], st)]
         /\ pc' = [pc EXCEPT ![i] =
                     IF plan'[i][idx[i]] = "failed" THEN "exStop" ELSE "exCheck"]
    /\ idx' = [idx EXCEPT ![i] = @ + 1]
    /\ UNCHANGED <<isRunning, fieldVars, iface, nChecked, hnd, exTasker, stopVars, events, errs>>
    /\ UNCHANGED <<syncVars, fnVars, auxVars>>

ExecWait(i) ==
    /\ pc[i] = "exWait"
    /\ \E st \in {"succeeded", "failed"} :
         plan' = [plan EXCEPT ![i] = Recorded(plan[i], idx[i], st)]
    /\ idx' = [idx EXCEPT ![i] = @ + 1]
    /\ pc' = [pc EXCEPT ![i] = "exCheck"]
    /\ UNCHANGED <<isRunning, fieldVars, iface, nChecked, hnd, exTasker, stopVars, events, errs>>
    /\ UNCHANGED <<syncVars, fnVars, auxVars>>

(***************************************************************************)
(* Stop(), service.go:376-431                                              *)
(***************************************************************************)
\* Stop call p may be made: a call of the presentation layer (numbered in the
\* order in which they take the lock), or the "defer s.Stop()" of an executor
\* whose loop has ended
StopCallable(p) ==
    /\ spc[p] = "idle"
    /\ IF IsExecStop(p) THEN pc[OwnerOf(p)] = "exStop"
                        ELSE /\ (IF p = 1 THEN TRUE ELSE spc[p - 1] # "idle")
                             /\ CallsMade < MaxCalls

\* the executor goroutine ends when its deferred Stop() returns
Returned(p, pcs) == IF IsExecStop(p) THEN [pcs EXCEPT ![OwnerOf(p)] = "finished"] ELSE pcs

\* the executor's locals (taskList, loop variable, tasker) once its loop is left
LoopLeft(p, f, v) == IF IsExecStop(p) THEN [f EXCEPT ![OwnerOf(p)] = v] ELSE f

\* Faulty variant: a Stop without the early return of lines 379-382.
Stop_NoGuard(p) ==
    /\ StopCallable(p)
    /\ isRunning' = FALSE
    /\ cap' = [cap EXCEPT ![p] = Fields]
    /\ tasker' = 0 /\ res' = 0 /\ ctrl' = 0 /\ agent' = 0 /\ agentCmd' = 0
    /\ spc' = [spc EXCEPT ![p] = "teardown"]
    /\ UNCHANGED pc
    /\ plan' = LoopLeft(p, plan, <<>>)
    /\ idx' = LoopLeft(p, idx, 0)
    /\ exTasker' = LoopLeft(p, exTasker, 0)
    /\ UNCHANGED <<iface, nChecked, hnd, events, errs>>
    /\ UNCHANGED <<syncVars, fnVars, auxVars>>

\* lines 378-397: under the write lock, return if not running; else clear
\* isRunning, capture the handle fields and set them to nil
Stop(p) ==
    /\ StopCallable(p)
    /\ IF ~isRunning
         THEN /\ spc' = [spc EXCEPT ![p] = "noop"]
              /\ pc' = Returned(p, pc)
              /\ UNCHANGED <<isRunning, fieldVars, cap>>
         ELSE /\ isRunning' = FALSE
              /\ cap' = [cap EXCEPT ![p] = Fields]
              /\ tasker' = 0 /\ res' = 0 /\ ctrl' = 0 /\ agent' = 0 /\ agentCmd' = 0
              /\ spc' = [spc EXCEPT ![p] = "teardown"]
              /\ UNCHANGED pc
    /\ plan' = LoopLeft(p, plan, <<>>)
    /\ idx' = LoopLeft(p, idx, 0)
    /\ exTasker' = LoopLeft(p, exTasker, 0)
    /\ UNCHANGED <<iface, nChecked, hnd, events, errs>>
    /\ UNCHANGED <<syncVars, fnVars, auxVars>>

\* lines 399-430: outside the lock, PostStop().Wait() if the tasker is running,
\* then Destroy() of tasker, agent, res, ctrl and Kill()/Wait() of the child;
\* EventsEmit(engine:running, false); Stop returns
StopTeardown(p) ==
    /\ spc[p] = "teardown"
    /\ hnd' = [i \in StartIds |-> [h \in HandleNames |->
                  IF cap[p][h] = i THEN Destroyed(hnd[i][h]) ELSE hnd[i][h]]]
    /\ plan' = [i \in StartIds |->
                  IF InFlight(i) /\ cap[p]["tasker"] # 0 /\ exTasker[i] = cap[p]["tasker"]
                    THEN [plan[i] EXCEPT ![idx[i]] = "failed"]
                    ELSE plan[i]]
    /\ events' = Emit(FALSE)
    /\ spc' = [spc EXCEPT ![p] = "done"]
    /\ pc' = Returned(p, pc)
    /\ UNCHANGED <<isRunning, fieldVars, iface, nChecked, idx, exTasker, cap, errs>>
    /\ UNCHANGED <<syncVars, fnVars, auxVars>>

EngineNext ==
    \/ \E i \in StartIds :
         \/ Start(i) \/ StartEmit(i) \/ StartAcquire(i)
         \/ handleInitErrorEmit(i)
         \/ ExecCheck(i) \/ ExecPost(i) \/ ExecWait(i)
    \/ \E p \in StopIds :
         \/ Stop(p) \/ StopTeardown(p)

(***************************************************************************)
(* Part II: the pi service. The schema (pi/piv2.go), its validation        *)
(* (validateV2), the two option walkers and the config synchronizer.       *)
(***************************************************************************)
\* SaveConfig() calls of the presentation layer
MaxEdits == 2

Min(S) == CHOOSE x \in S : \A y \in S : x <= y
Max(S) == CHOOSE x \in S : \A y \in S : x >= y
Range(q) == {q[i] : i \in DOMAIN q}

\* m[k] on a Go map[string]string: the zero value for an absent key
Get(m, k) == IF k \in DOMAIN m THEN m[k] ELSE ""

\* V2Option.GetType, piv2.go:97-102
GetType(o) == IF o.type = "" THEN "select" ELSE o.type

\* ---- the schemas considered ----
\* V2OptionCase, V2OptionInput, V2Option and V2Task with the fields the walkers,
\* the validator and the synchronizer read
Case(n, opts) == [name |-> n, option |-> opts]
InputOption(n, d, ty) ==
    [type |-> "input", cases |-> <<>>, default_case |-> "",
     inputs |-> <<[name |-> n, default |-> d, pipeline_type |-> ty, verify |-> ""]>>]
Task(n, opts) ==
    [name |-> n, entry |-> "Entry", default_check |-> TRUE, resource |-> <<>>,
     option |-> opts]
\* V2Agent: no agent block, or its child_exec
NoAgent == [nil |-> TRUE, child_exec |-> ""]

OptionNames == {"Diff", "Sw", "Sub", "Ext"}
SubDefs == {InputOption("x", "5", "int"), InputOption("x", "", "string")}
ExtDefs == {InputOption("y", "1", "string")}
SwDefs ==
    {[type |-> "switch", inputs |-> <<>>, default_case |-> "", cases |-> cs] :
        cs \in {<<Case(n[1], <<>>), Case(n[2], <<"Ext">>)>> :
                    n \in {<<"Yes", "No">>, <<"Y", "yes">>}}
               \cup {<<Case("No", <<>>)>>}}
DiffDefs ==
    {[type |-> "", inputs |-> <<>>, default_case |-> d,
      cases |-> <<Case("Easy", e), Case("Hard", h)>>] :
        e \in {<<"Sub">>, <<"Sw">>},
        h \in {<<>>, <<"Sub">>},
        d \in {"", "Hard", "Gone"}}
TaskLists ==
    LET First == {Task("T", o) : o \in {<<"Diff">>, <<"Diff", "Sub">>}}
        Second == {Task(n, o) : n \in {"T", "U"}, o \in {<<"Sw">>, <<"Missing">>}}
    IN {<<a>> : a \in First} \cup {<<a, b>> : a \in First, b \in Second}
Schemas ==
    {[interface_version |-> 2, name |-> "App", controller |-> <<>>, resource |-> <<>>,
      agent |-> NoAgent, task |-> ts,
      option |-> [n \in OptionNames |->
                    CASE n = "Diff" -> d [] n = "Sw" -> w [] n = "Sub" -> u [] OTHER -> x]] :
        ts \in TaskLists, d \in DiffDefs, w \in SwDefs, u \in SubDefs, x \in ExtDefs}

\* regexp.Compile on the patterns considered: "(" is the one it rejects
regexpCompiles(pattern) == pattern # "("

\* the controller loop of validateV2 without its duplicate-name test
validateControllers_NoDuplicateTest(f) ==
    \A i \in DOMAIN f.controller :
        LET ctrlr == f.controller[i]
            count == (IF ctrlr.display_short_side # "nil" THEN 1 ELSE 0)
                     + (IF ctrlr.display_long_side # "nil" THEN 1 ELSE 0)
                     + (IF ctrlr.display_raw THEN 1 ELSE 0)
        IN /\ ctrlr.name # ""
           /\ ctrlr.type \in {"Adb", "Win32"}
           /\ ~(count > 1)

\* validateV2, the controller loop (part_012:45-70)
validateControllers(f) ==
    \A i \in DOMAIN f.controller :
        LET ctrlr == f.controller[i]
            count == (IF ctrlr.display_short_side # "nil" THEN 1 ELSE 0)
                     + (IF ctrlr.display_long_side # "nil" THEN 1 ELSE 0)
                     + (IF ctrlr.display_raw THEN 1 ELSE 0)
        IN /\ ctrlr.name # ""
           /\ ~\E j \in 1..(i - 1) : f.controller[j].name = ctrlr.name
           /\ ctrlr.type \in {"Adb", "Win32"}
           /\ ~(count > 1)

\* validateV2, the resource loop (part_012:73-92)
validateResources(f) ==
    \A i \in DOMAIN f.resource :
        /\ f.resource[i].name # ""
        /\ ~\E j \in 1..(i - 1) : f.resource[j].name = f.resource[i].name
        /\ Len(f.resource[i].path) # 0
        /\ \A k \in DOMAIN f.resource[i].controller :
             \E j \in DOMAIN f.controller :
                 f.controller[j].name = f.resource[i].controller[k]

\* validateV2, the task loop (part_012:102-121)
validateTasks(f) ==
    \A i \in DOMAIN f.task :
        /\ f.task[i].name # ""
        /\ f.task[i].entry # ""
        /\ \A k \in DOMAIN f.task[i].resource :
             \E j \in DOMAIN f.resource : f.resource[j].name = f.task[i].resource[k]
        /\ \A k \in DOMAIN f.task[i].option : f.task[i].option[k] \in DOMAIN f.option

\* validateV2, the option loop (part_012:124-174)
validateOptions(f) ==
    \A name \in DOMAIN f.option :
        LET opt == f.option[name] IN
        CASE GetType(opt) \in {"select", "switch"} ->
               /\ Len(opt.cases) # 0
               /\ ~(GetType(opt) = "switch" /\ Len(opt.cases) # 2)
               /\ \A j \in DOMAIN opt.cases :
                    /\ opt.cases[j].name # ""
                    /\ \A k \in DOMAIN opt.cases[j].option :
                         opt.cases[j].option[k] \in DOMAIN f.option
               /\ (opt.default_case # ""
                     => \E j \in DOMAIN opt.cases : opt.cases[j].name = opt.default_case)
          [] GetType(opt) = "input" ->
               /\ Len(opt.inputs) # 0
               /\ \A j \in DOMAIN opt.inputs :
                    /\ opt.inputs[j].name # ""
                    /\ (opt.inputs[j].verify # "" => regexpCompiles(opt.inputs[j].verify))
          [] OTHER -> FALSE

\* validateV2, part_012:35-177 (true: accepted, false: an error is returned)
validateV2(f) ==
    /\ f.interface_version = 2
    /\ f.name # ""
    /\ validateControllers(f)
    /\ validateResources(f)
    /\ ~(~f.agent.nil /\ f.agent.child_exec = "")
    /\ validateTasks(f)
    /\ validateOptions(f)

\* ParseV2 returning every document that decodes
ParseV2_NoValidation(data) ==
    IF ~data.json THEN [err |-> TRUE] ELSE [err |-> FALSE, iface |-> data.doc]

\* ParseV2, part_012:12-23: data that does not decode is an error, a decoded
\* document is returned when validateV2 accepts it
ParseV2(data) ==
    IF ~data.json THEN [err |-> TRUE]
    ELSE IF ~validateV2(data.doc) THEN [err |-> TRUE]
    ELSE [err |-> FALSE, iface |-> data.doc]

\* ---- the option walkers ----
\* a ConfigTaskOption
Opt(n, v) == [name |-> n, value |-> v]

\* "for i := range cases { if cases[i].Name == n { ...; break } }": the first
\* case named n, 0 if there is none
FindCase(cases, n) ==
    LET S == {i \in DOMAIN cases : cases[i].name = n}
    IN IF S = {} THEN 0 ELSE Min(S)

\* part_002:138-146 and 367-376: the first case of a switch that is not spelled
\* Yes, yes, Y or y; 0 if there is none
FirstNoCase(cases) ==
    LET S == {i \in DOMAIN cases : cases[i].name \notin {"Yes", "yes", "Y", "y"}}
    IN IF S = {} THEN 0 ELSE Min(S)

\* part_002:166-176 and 406-416: an input's default, or the zero of its type
inputDefault(input) ==
    IF input.default # "" THEN input.default
    ELSE CASE input.pipeline_type = "bool" -> "false"
           [] input.pipeline_type = "int"  -> "0"
           [] OTHER                        -> ""

\* the (value, case) a select falls back to, part_002:111-123 and 332-339
selectDefault(optDef) ==
    IF optDef.default_case # ""
      THEN [value |-> optDef.default_case, case |-> FindCase(optDef.cases, optDef.default_case)]
    ELSE IF Len(optDef.cases) > 0
      THEN [value |-> optDef.cases[1].name, case |-> 1]
      ELSE [value |-> "", case |-> 0]

\* Faulty variant: a switch that falls back to its first case, whatever its name.
switchDefault_FirstCase(optDef) ==
    IF Len(optDef.cases) > 0 THEN [value |-> optDef.cases[1].name, case |-> 1]
    ELSE [value |-> "", case |-> 0]

\* the (value, case) a switch falls back to, part_002:134-149 and 365-376
switchDefault(optDef) ==
    LET c == FirstNoCase(optDef.cases)
    IN IF c # 0 THEN [value |-> optDef.cases[c].name, case |-> c]
       ELSE IF Len(optDef.cases) > 0 THEN [value |-> "No", case |-> 0]
       ELSE [value |-> "", case |-> 0]

RECURSIVE collectOptionDefaults(_, _)
\* collectOptionDefaults, part_002:97-190: the entries appended to *options
collectOptionDefaults(optionNames, optionDefs) ==
    IF optionNames = <<>> THEN <<>>
    ELSE
      LET optName == Head(optionNames)
          Sel(d) ==
              (IF d.value # "" THEN <<Opt(optName, d.value)>> ELSE <<>>)
              \o (IF d.case # 0 /\ Len(optionDefs[optName].cases[d.case].option) > 0
                    THEN collectOptionDefaults(optionDefs[optName].cases[d.case].option,
                                               optionDefs)
                    ELSE <<>>)
          here ==
              IF optName \notin DOMAIN optionDefs THEN <<>>
              ELSE LET optDef == optionDefs[optName] IN
                   CASE GetType(optDef) = "select" -> Sel(selectDefault(optDef))
                     [] GetType(optDef) = "switch" -> Sel(switchDefault(optDef))
                     [] GetType(optDef) = "input" ->
                          [j \in DOMAIN optDef.inputs |->
                              Opt(optName \o "." \o optDef.inputs[j].name,
                                  inputDefault(optDef.inputs[j]))]
                     [] OTHER -> <<>>
      IN here \o collectOptionDefaults(Tail(optionNames), optionDefs)

RECURSIVE collectExpectedOptions(_, _, _)
\* collectExpectedOptions, part_002:316-428: the entries appended to *expected
collectExpectedOptions(optionNames, currentValues, optionDefs) ==
    IF optionNames = <<>> THEN <<>>
    ELSE
      LET optName == Head(optionNames)
          Sel(d) ==
              (IF d.value # "" THEN <<Opt(optName, d.value)>> ELSE <<>>)
              \o (IF d.case # 0 /\ Len(optionDefs[optName].cases[d.case].option) > 0
                    THEN collectExpectedOptions(optionDefs[optName].cases[d.case].option,
                                                currentValues, optionDefs)
                    ELSE <<>>)
          Stored(optDef) ==
              [value |-> Get(currentValues, optName),
               case  |-> FindCase(optDef.cases, Get(currentValues, optName))]
          here ==
              IF optName \notin DOMAIN optionDefs THEN <<>>
              ELSE LET optDef == optionDefs[optName] IN
                   CASE GetType(optDef) = "select" ->
                          IF Get(currentValues, optName) = ""
                            THEN Sel([value |-> selectDefault(optDef).value,
                                      case  |-> FindCase(optDef.cases,
                                                         selectDefault(optDef).value)])
                            ELSE Sel(Stored(optDef))
                     [] GetType(optDef) = "switch" ->
                          IF Get(currentValues, optName) = ""
                            THEN Sel([value |-> IF FirstNoCase(optDef.cases) # 0
                                                  THEN optDef.cases[FirstNoCase(optDef.cases)].name
                                                  ELSE "No",
                                      case  |-> FirstNoCase(optDef.cases)])
                            ELSE Sel(Stored(optDef))
                     [] GetType(optDef) = "input" ->
                          [j \in DOMAIN optDef.inputs |->
                              LET key == optName \o "." \o optDef.inputs[j].name
                              IN Opt(key, IF Get(currentValues, key) = ""
                                            THEN inputDefault(optDef.inputs[j])
                                            ELSE Get(currentValues, key))]
                     [] OTHER -> <<>>
      IN here \o collectExpectedOptions(Tail(optionNames), currentValues, optionDefs)

\* getExpectedOptions, part_002:309-313
getExpectedOptions(optionNames, currentValues, optionDefs) ==
    collectExpectedOptions(optionNames, currentValues, optionDefs)

\* initTaskOptions, part_002:86-94
initTaskOptions(optionNames, optionDefs) ==
    IF Len(optionNames) = 0 THEN <<>>
    ELSE collectOptionDefaults(optionNames, optionDefs)

\* ---- the synchronizer ----
\* part_002:258-261: currentOptions[opt.Name] = opt.Value over task.Option in
\* order, so that the last entry of a name decides
currentOptionsOf(option) ==
    [n \in {option[i].name : i \in DOMAIN option} |->
        option[Max({i \in DOMAIN option : option[i].name = n})].value]

\* Faulty variant: a synchronizer that appends what is missing and drops nothing.
syncTaskConfigOptions_KeepExtras(task, optionNames, optionDefs) ==
    LET currentOptions == currentOptionsOf(task.option)
        expectedOptions == getExpectedOptions(optionNames, currentOptions, optionDefs)
        missingOptions == SelectSeq(expectedOptions,
                                    LAMBDA e : e.name \notin DOMAIN currentOptions)
    IN IF Len(missingOptions) = 0
         THEN [changed |-> FALSE, task |-> task]
         ELSE [changed |-> TRUE,
               task |-> [task EXCEPT !.option = task.option \o missingOptions]]

\* syncTaskConfigOptions, part_002:251-306: whether the task changed, and the task.
\* (optionDefs is never nil here: every schema considered has an option map.)
syncTaskConfigOptions(task, optionNames, optionDefs) ==
    LET currentOptions == currentOptionsOf(task.option)
        expectedOptions == getExpectedOptions(optionNames, currentOptions, optionDefs)
        missingOptions == SelectSeq(expectedOptions,
                                    LAMBDA e : e.name \notin DOMAIN currentOptions)
        expectedNames == {expectedOptions[i].name : i \in DOMAIN expectedOptions}
        extraOptions == {n \in DOMAIN currentOptions : n \notin expectedNames}
        newOptions == SelectSeq(task.option, LAMBDA o : o.name \in expectedNames)
                      \o missingOptions
    IN IF Len(missingOptions) = 0 /\ extraOptions = {}
         THEN [changed |-> FALSE, task |-> task]
         ELSE [changed |-> TRUE, task |-> [task EXCEPT !.option = newOptions]]

\* part_002:226-233: the first schema task with the name of config task t, 0 if
\* there is none
piTaskOf(cfg, f, t) ==
    LET S == {j \in DOMAIN f.task : f.task[j].name = cfg.task[t].name}
    IN IF S = {} THEN 0 ELSE Min(S)

\* syncConfigOptions dropping the tasks whose name no schema task has
syncConfigOptions_DropUnresolved(cfg, f) ==
    LET kept == SelectSeq(cfg.task,
                          LAMBDA c : \E j \in DOMAIN f.task : f.task[j].name = c.name)
        synced(t) == syncTaskConfigOptions(kept[t],
                        f.task[Min({j \in DOMAIN f.task : f.task[j].name = kept[t].name})].option,
                        f.option)
    IN [changed |-> Len(kept) # Len(cfg.task) \/ \E t \in DOMAIN kept : synced(t).changed,
        config  |-> [cfg EXCEPT !.task = [t \in DOMAIN kept |-> synced(t).task]]]

\* syncConfigOptions, part_002:213-247: whether anything changed, and the config
syncConfigOptions(cfg, f) ==
    LET synced(t) ==
            IF piTaskOf(cfg, f, t) = 0
              THEN [changed |-> FALSE, task |-> cfg.task[t]]
              ELSE syncTaskConfigOptions(cfg.task[t],
                                         f.task[piTaskOf(cfg, f, t)].option, f.option)
    IN [changed |-> \E t \in DOMAIN cfg.task : synced(t).changed,
        config  |-> [cfg EXCEPT !.task = [t \in DOMAIN cfg.task |-> synced(t).task]]]

\* uuid.New().String() for the i-th task of a default config
NewId(i) == <<"uuid", i>>
\* ConfigController{}, the zero value
NoController == [name |-> "", type |-> ""]

\* initDefaultConfig, part_002:37-83: the first controller and resource, and one
\* ConfigTask per schema task, in order, with the default options of its
\* option list
initDefaultConfig(f) ==
    [nil  |-> FALSE,
     controller |-> IF Len(f.controller) > 0
                      THEN [name |-> f.controller[1].name, type |-> f.controller[1].type]
                      ELSE NoController,
     resource |-> IF Len(f.resource) > 0 THEN f.resource[1].name ELSE "",
     task |-> [i \in DOMAIN f.task |->
                 [id |-> NewId(i),
                  name |-> f.task[i].name,
                  checked |-> f.task[i].default_check,
                  option |-> initTaskOptions(f.task[i].option, f.option)]]]

\* ---- the calls made on the service ----
NilConfig == [nil |-> TRUE, task |-> <<>>]
NoOp == [op |-> "none", t |-> 0, key |-> "", old |-> "", new |-> ""]
Op(o) == [NoOp EXCEPT !.op = o]

PiInit ==
    /\ v2Loaded \in {f \in Schemas : validateV2(f)}
    /\ config = NilConfig
    /\ changed = FALSE
    /\ lastOp = NoOp
    /\ prevOp = NoOp
    /\ before = NilConfig
    /\ nEdits = 0

\* engine.go:138-145 (Startup): no config file yet, so the default config is built
StartupInit ==
    /\ config.nil
    /\ config' = initDefaultConfig(v2Loaded)
    /\ before' = config
    /\ prevOp' = lastOp
    /\ lastOp' = Op("init")
    /\ UNCHANGED <<v2Loaded, changed, nEdits>>
    /\ UNCHANGED <<engineVars, fnVars, auxVars>>

\* engine.go:146-154 (Startup): the stored config is loaded and synchronized
StartupSync ==
    /\ ~config.nil
    /\ config' = syncConfigOptions(config, v2Loaded).config
    /\ changed' = syncConfigOptions(config, v2Loaded).changed
    /\ before' = config
    /\ prevOp' = lastOp
    /\ lastOp' = Op("sync")
    /\ UNCHANGED <<v2Loaded, nEdits>>
    /\ UNCHANGED <<engineVars, fnVars, auxVars>>

\* the values the presentation layer offers for the entry named n: the cases of
\* a select or switch, a text for an input
EditValues(n) ==
    IF n \in DOMAIN v2Loaded.option /\ GetType(v2Loaded.option[n]) \in {"select", "switch"}
      THEN {c.name : c \in Range(v2Loaded.option[n].cases)}
      ELSE {"7"}

\* SaveConfig, part_002:463-469: the presentation layer stores the config with
\* the value of entry k of task t changed to v
SaveConfig(t, k, v) ==
    /\ ~config.nil
    /\ nEdits < MaxEdits
    /\ v # config.task[t].option[k].value
    /\ config' = [config EXCEPT !.task[t].option[k].value = v]
    /\ before' = config
    /\ prevOp' = lastOp
    /\ lastOp' = [op |-> "save", t |-> t, key |-> config.task[t].option[k].name,
                  old |-> config.task[t].option[k].value, new |-> v]
    /\ nEdits' = nEdits + 1
    /\ UNCHANGED <<v2Loaded, changed>>
    /\ UNCHANGED <<engineVars, fnVars, auxVars>>

PiNext ==
    \/ StartupInit
    \/ StartupSync
    \/ \E t \in DOMAIN config.task : \E k \in DOMAIN config.task[t].option :
         \E v \in EditValues(config.task[t].option[k].name) : SaveConfig(t, k, v)

\* the pi service at rest while the engine runs, and the engine at rest while
\* the pi service is exercised
PiAtRest ==
    /\ v2Loaded = [task |-> <<>>, option |-> <<>>]  \* no interface loaded
    /\ config = NilConfig
    /\ changed = FALSE
    /\ lastOp = NoOp
    /\ prevOp = NoOp
    /\ before = NilConfig
    /\ nEdits = 0
EngineAtRest == EngineInit /\ iface = "plain" /\ nChecked = 0


(***************************************************************************)
(* Part III: single calls of the functions of the pi service and of the    *)
(* engine's plan builder, each on arguments drawn from a bounded family.   *)
(***************************************************************************)
\* ---- the option walkers on a switch with no stored value ----
SwitchNames == {"Yes", "YES", "yEs", "y", "Y", "No", "Off"}
SwitchOptions ==
    {[type |-> "switch", inputs |-> <<>>, default_case |-> "",
      cases |-> <<Case(a, x), Case(b, y)>>] :
        a \in SwitchNames, b \in SwitchNames,
        x \in {<<>>, <<"Ext">>}, y \in {<<>>, <<"Ext">>}}
SwitchCalls ==
    {[fn |-> "walkSwitch",
      optionDefs |-> [n \in {"Sw", "Ext"} |->
                        IF n = "Sw" THEN w ELSE InputOption("y", "1", "string")]] :
        w \in SwitchOptions}

\* initTaskOptions (part_002:86-94) and getExpectedOptions with an empty
\* currentValues map (part_002:309-313) on the option list ["Sw"]
WalkSwitch ==
    /\ arg.fn = "walkSwitch"
    /\ ~ret.done
    /\ ret' = [done |-> TRUE,
               defaults |-> initTaskOptions(<<"Sw">>, arg.optionDefs),
               expected |-> getExpectedOptions(<<"Sw">>, <<>>, arg.optionDefs)]
    /\ UNCHANGED <<arg, engineVars, syncVars, auxVars>>

\* ---- the two option walkers on the option maps of the accepted schemas ----
MaxRefs == 2
\* the option reference lists considered: up to MaxRefs names, declared or not
RefLists ==
    UNION {[1..n -> OptionNames \cup {"Missing"}] : n \in 0..MaxRefs}
WalkCalls ==
    {[fn |-> "walkOptions", optionNames |-> names, optionDefs |-> f.option] :
        names \in RefLists,
        f \in {g \in Schemas : validateV2(g) /\ Len(g.task) = 1
                                /\ g.task[1].option = <<"Diff">>}}

\* collectOptionDefaults (part_002:97-190) and collectExpectedOptions with an
\* empty currentValues map (part_002:316-428) on the same option list
WalkOptions ==
    /\ arg.fn = "walkOptions"
    /\ ~ret.done
    /\ ret' = [done |-> TRUE,
               defaults |-> collectOptionDefaults(arg.optionNames, arg.optionDefs),
               expected |-> collectExpectedOptions(arg.optionNames, <<>>, arg.optionDefs)]
    /\ UNCHANGED <<arg, engineVars, syncVars, auxVars>>

\* ---- ParseV2 on interface documents ----
Ctrl(n, ty, short, long, raw) ==
    [name |-> n, type |-> ty, display_short_side |-> short,
     display_long_side |-> long, display_raw |-> raw]
Res(n, path, ctrls) == [name |-> n, path |-> path, controller |-> ctrls]
ControllerLists ==
    {<<>>,
     <<Ctrl("A", "Adb", "nil", "nil", FALSE)>>,
     <<Ctrl("A", "Adb", "720", "nil", FALSE), Ctrl("B", "Win32", "nil", "1280", FALSE)>>,
     <<Ctrl("A", "Win32", "nil", "nil", TRUE)>>,
     <<Ctrl("Dup", "Adb", "nil", "nil", FALSE), Ctrl("Dup", "Win32", "nil", "nil", FALSE)>>,
     <<Ctrl("A", "Adb", "720", "1280", FALSE)>>,
     <<Ctrl("A", "Adb", "720", "nil", TRUE)>>,
     <<Ctrl("A", "Adb", "nil", "1280", TRUE)>>,
     <<Ctrl("A", "Playcover", "nil", "nil", FALSE)>>,
     <<Ctrl("", "Adb", "nil", "nil", FALSE)>>}
ResourceLists ==
    {<<>>,
     <<Res("R", <<"./res">>, <<>>)>>,
     <<Res("R", <<"./res">>, <<"A">>), Res("S", <<"./res", "./s">>, <<>>)>>,
     <<Res("R", <<"./res">>, <<>>), Res("R", <<"./s">>, <<>>)>>,
     <<Res("R", <<>>, <<>>)>>,
     <<Res("R", <<"./res">>, <<"B">>)>>,
     <<Res("", <<"./res">>, <<>>)>>}
Agents == {NoAgent, [nil |-> FALSE, child_exec |-> ""], [nil |-> FALSE, child_exec |-> "agent.exe"]}
DocTask(n, e, rs, opts) ==
    [name |-> n, entry |-> e, default_check |-> FALSE, resource |-> rs, option |-> opts]
SelectOf(ty, cs, d) == [type |-> ty, cases |-> cs, default_case |-> d, inputs |-> <<>>]
InputOf(ins) == [type |-> "input", cases |-> <<>>, default_case |-> "", inputs |-> ins]
In(n, pattern) == [name |-> n, default |-> "1", pipeline_type |-> "int", verify |-> pattern]
OneOption(o) == [n \in {"Mode", "Num"} |-> IF n = "Mode" THEN o ELSE InputOf(<<In("x", "")>>)]
\* the task list and the option map of a document
Bodies ==
    {[task |-> ts, option |-> OneOption(SelectOf("", <<Case("Easy", <<"Num">>)>>, "Easy"))] :
        ts \in {<<>>,
                <<DocTask("T", "Entry", <<"R">>, <<"Mode">>)>>,
                <<DocTask("T", "Entry", <<>>, <<"Mode", "Num">>), DocTask("T", "Other", <<>>, <<>>)>>,
                <<DocTask("T", "", <<>>, <<>>)>>,
                <<DocTask("", "Entry", <<>>, <<>>)>>,
                <<DocTask("T", "Entry", <<"Gone">>, <<>>)>>,
                <<DocTask("T", "Entry", <<>>, <<"Gone">>)>>}}
    \cup
    {[task |-> <<DocTask("T", "Entry", <<>>, <<"Mode">>)>>, option |-> OneOption(o)] :
        o \in {SelectOf("select", <<Case("Easy", <<>>), Case("Hard", <<"Num">>)>>, ""),
               SelectOf("select", <<>>, ""),
               SelectOf("", <<Case("Easy", <<"Gone">>)>>, ""),
               SelectOf("", <<Case("", <<>>)>>, ""),
               SelectOf("", <<Case("Easy", <<>>)>>, "Gone"),
               SelectOf("switch", <<Case("Yes", <<>>), Case("No", <<>>)>>, "No"),
               SelectOf("switch", <<Case("Yes", <<>>)>>, ""),
               SelectOf("switch", <<Case("Yes", <<>>), Case("No", <<>>), Case("Off", <<>>)>>, ""),
               SelectOf("checkbox", <<Case("Easy", <<>>)>>, ""),
               InputOf(<<In("x", "^[0-9]+$")>>),
               InputOf(<<In("x", "(")>>),
               InputOf(<<In("", "")>>),
               InputOf(<<>>)}}
Documents ==
    {[interface_version |-> v, name |-> n, controller |-> cs, resource |-> rs,
      agent |-> a, task |-> b.task, option |-> b.option] :
        v \in {1, 2}, n \in {"", "App"}, cs \in ControllerLists, rs \in ResourceLists,
        a \in Agents, b \in Bodies}
ParseCalls ==
    {[fn |-> "ParseV2", data |-> [json |-> TRUE, doc |-> d]] : d \in Documents}
    \cup {[fn |-> "ParseV2", data |-> [json |-> FALSE]]}

CallParseV2 ==
    /\ arg.fn = "ParseV2"
    /\ ~ret.done
    /\ ret' = [done |-> TRUE, result |-> ParseV2(arg.data)]
    /\ UNCHANGED <<arg, engineVars, syncVars, auxVars>>

\* ---- Startup on an interface file and a config file ----
\* DetectVersion, engine.go:185-200: 0 stands for the error return
DetectVersion(data) ==
    IF ~data.json THEN 0
    ELSE CASE data.doc.interface_version \in {0, 1} -> 1
           [] data.doc.interface_version = 2 -> 2
           [] OTHER -> 0

\* loadConfig, part_002:193-209: the file is read and decoded
loadConfig(file) ==
    IF ~file.exists \/ ~file.json THEN [err |-> TRUE]
    ELSE [err |-> FALSE,
          config |-> [nil |-> FALSE, controller |-> file.content.controller,
                      resource |-> file.content.resource, task |-> file.content.task]]

\* saveConfig, part_002:431-446: the file after the config is encoded and
\* written; a failed write leaves the file as it was
saveConfig(cfg, file, writable) ==
    IF cfg.nil \/ ~writable THEN file
    ELSE [exists |-> TRUE, json |-> TRUE,
          content |-> [controller |-> cfg.controller, resource |-> cfg.resource,
                       task |-> cfg.task]]

StartupSchemas ==
    {[f EXCEPT !.controller = <<Ctrl("A", "Adb", "nil", "nil", FALSE)>>,
               !.resource = <<Res("R", <<"./res">>, <<>>)>>] :
        f \in {g \in Schemas : /\ validateV2(g)
                               /\ g.option["Sub"] = InputOption("x", "5", "int")
                               /\ g.option["Sw"].cases[1].name = "Yes"
                               /\ g.option["Diff"].default_case = ""}}
InvalidSchemas ==
    {[f EXCEPT !.controller = cs] :
        f \in {g \in StartupSchemas : Len(g.task) = 1},
        cs \in {<<Ctrl("Dup", "Adb", "nil", "nil", FALSE), Ctrl("Dup", "Adb", "nil", "nil", FALSE)>>,
                <<Ctrl("A", "Adb", "720", "1280", FALSE)>>}}
OtherVersions ==
    {[f EXCEPT !.interface_version = v] :
        f \in {g \in StartupSchemas : Len(g.task) = 1 /\ Len(g.task[1].option) = 1},
        v \in {0, 1, 3}}
NoFile == [exists |-> FALSE]
BadFile == [exists |-> TRUE, json |-> FALSE]
InterfaceFiles ==
    {NoFile, BadFile}
    \cup {[exists |-> TRUE, json |-> TRUE, doc |-> d] :
            d \in StartupSchemas \cup InvalidSchemas \cup OtherVersions}
\* the option lists a stored ConfigTask may hold: the defaults of a task of a
\* schema, lists with a choice of the user, with an entry missing, with an
\* entry no schema declares
StoredOptions ==
    {initTaskOptions(f.task[i].option, f.option) : f \in StartupSchemas, i \in {1}}
    \cup {<<>>,
          <<Opt("Diff", "Hard")>>,
          <<Opt("Diff", "Hard"), Opt("Sub.x", "7")>>,
          <<Opt("Sub.x", "7"), Opt("Diff", "Easy"), Opt("Old", "1")>>,
          <<Opt("Sw", "No"), Opt("Ext.y", "2")>>,
          <<Opt("Sw", "Yes")>>}
CfgTask(id, n, c, o) == [id |-> id, name |-> n, checked |-> c, option |-> o]
StoredTaskLists ==
    LET First == {CfgTask("a", n, c, o) : n \in {"T", "Gone"}, c \in BOOLEAN, o \in StoredOptions}
        Second == {CfgTask("b", n, FALSE, o) :
                      n \in {"T", "U"},
                      o \in {<<>>, <<Opt("Diff", "Hard"), Opt("Sub.x", "7")>>,
                             <<Opt("Sw", "No"), Opt("Ext.y", "2")>>, <<Opt("Sw", "Yes")>>}}
    IN {<<>>} \cup {<<a>> : a \in First} \cup {<<a, b>> : a \in First, b \in Second}
StoredConfig(ts) ==
    [exists |-> TRUE, json |-> TRUE,
     content |-> [controller |-> [name |-> "A", type |-> "Adb"], resource |-> "R",
                  task |-> ts]]
ConfigFiles == {NoFile, BadFile} \cup {StoredConfig(ts) : ts \in StoredTaskLists}
\* a valid interface with every config file; the other interface files with no
\* config file, an undecodable one and two stored configs
StartupCalls ==
    {[fn |-> "Startup", interface |-> [exists |-> TRUE, json |-> TRUE, doc |-> d],
      configFile |-> c, writable |-> w] :
        d \in StartupSchemas, c \in ConfigFiles, w \in BOOLEAN}
    \cup
    {[fn |-> "Startup", interface |-> i, configFile |-> c, writable |-> w] :
        i \in InterfaceFiles,
        c \in {NoFile, BadFile, StoredConfig(<<>>),
               StoredConfig(<<CfgTask("a", "T", TRUE, <<Opt("Diff", "Hard")>>)>>)},
        w \in BOOLEAN}

\* the interface has not been loaded
NilInterface == [task |-> <<>>, option |-> <<>>]
\* what Startup reports when it returns before the config is handled
EarlyReturn(v) ==
    [done |-> TRUE, version |-> v, calls |-> <<>>, file |-> arg.configFile]

\* the config part of Startup saving the config whether or not it changed
handleConfig_AlwaysSave(f, file, writable, was) ==
    LET loaded == loadConfig(file)
        synced == syncConfigOptions(loaded.config, f)
    IN IF loaded.err
         THEN [config |-> initDefaultConfig(f), changed |-> was,
               calls |-> <<"loadConfig", "initDefaultConfig", "saveConfig">>,
               file |-> saveConfig(initDefaultConfig(f), file, writable)]
         ELSE [config |-> synced.config, changed |-> synced.changed,
               calls |-> <<"loadConfig", "syncConfigOptions", "saveConfig">>,
               file |-> saveConfig(synced.config, file, writable)]

\* Startup, engine.go:138-154: the config is loaded and synchronized, or the
\* default config is built; the config and the flag of the service, the
\* functions run and the config file afterwards
handleConfig(f, file, writable, was) ==
    LET loaded == loadConfig(file)
        synced == syncConfigOptions(loaded.config, f)
    IN IF loaded.err
         THEN [config |-> initDefaultConfig(f), changed |-> was,
               calls |-> <<"loadConfig", "initDefaultConfig", "saveConfig">>,
               file |-> saveConfig(initDefaultConfig(f), file, writable)]
       ELSE IF synced.changed
         THEN [config |-> synced.config, changed |-> TRUE,
               calls |-> <<"loadConfig", "syncConfigOptions", "saveConfig">>,
               file |-> saveConfig(synced.config, file, writable)]
       ELSE [config |-> synced.config, changed |-> FALSE,
             calls |-> <<"loadConfig", "syncConfigOptions">>,
             file |-> file]

\* Startup, engine.go:99-155
Startup ==
    /\ arg.fn = "Startup"
    /\ ~ret.done
    /\ LET data == arg.interface
           version == DetectVersion(data)
           parsed == ParseV2(data)
           handled == handleConfig(parsed.iface, arg.configFile, arg.writable, changed)
       IN IF ~data.exists \/ version = 0
            THEN /\ ret' = EarlyReturn(0)
                 /\ UNCHANGED <<v2Loaded, config, changed>>
          ELSE IF version # 2 \/ parsed.err
            THEN /\ ret' = EarlyReturn(version)
                 /\ UNCHANGED <<v2Loaded, config, changed>>
          ELSE /\ v2Loaded' = parsed.iface
               /\ config' = handled.config
               /\ changed' = handled.changed
               /\ ret' = [done |-> TRUE, version |-> version,
                          calls |-> handled.calls, file |-> handled.file]
    /\ UNCHANGED <<lastOp, prevOp, before, nEdits>>
    /\ UNCHANGED <<arg, engineVars, auxVars>>

\* ---- the override compiler ----
\* Texts that are searched, matched or parsed are sequences of characters.
\* A decoded JSON value is a record with one field that names its kind:
\* str, num, bool, arr, obj or null; int is the Go int that convertValue makes.
Str(t) == [str |-> t]
Num(n) == [num |-> n]
GoInt(n) == [int |-> n]
Bool(b) == [bool |-> b]
Arr(a) == [arr |-> a]
Obj(o) == [obj |-> o]
Digits == {"0", "1", "5", "7"}
Letters == {"a", "e", "r", "t", "u", "x", "y", "T"}
\* \w of the pattern of part_013:194 on the characters considered
IsWord(c) == c \in Letters \cup Digits \cup {"_"}
DigitValue(c) == CASE c = "0" -> 0 [] c = "1" -> 1 [] c = "5" -> 5 [] OTHER -> 7
RECURSIVE Decimal(_)
Decimal(t) == IF t = <<>> THEN 0 ELSE 10 * Decimal(SubSeq(t, 1, Len(t) - 1)) + DigitValue(t[Len(t)])
\* strconv.Atoi: an optional sign and at least one digit, nothing else
Atoi(t) ==
    LET signed == t # <<>> /\ t[1] \in {"+", "-"}
        digits == IF signed THEN Tail(t) ELSE t
    IN IF digits = <<>> \/ \E i \in DOMAIN digits : digits[i] \notin Digits
         THEN [err |-> TRUE]
         ELSE [err |-> FALSE,
               i |-> IF signed /\ t[1] = "-" THEN 0 - Decimal(digits) ELSE Decimal(digits)]

\* strings.ReplaceAll for a non-empty old
RECURSIVE ReplaceAll(_, _, _)
ReplaceAll(t, old, new) ==
    IF Len(old) > Len(t) THEN t
    ELSE IF SubSeq(t, 1, Len(old)) = old
      THEN new \o ReplaceAll(SubSeq(t, Len(old) + 1, Len(t)), old, new)
    ELSE <<t[1]>> \o ReplaceAll(Tail(t), old, new)

\* convertValue returning an int for every value of kind int
convertValue_IntOfAnything(value, pipelineType) ==
    CASE pipelineType = "int" -> GoInt(IF Atoi(value).err THEN 0 ELSE Atoi(value).i)
      [] pipelineType = "bool" -> Bool(value \in {<<"t", "r", "u", "e">>, <<"T", "r", "u", "e">>, <<"1">>})
      [] OTHER -> Str(value)

\* convertValue, part_013:231-243
convertValue(value, pipelineType) ==
    CASE pipelineType = "int" -> IF Atoi(value).err THEN Str(value) ELSE GoInt(Atoi(value).i)
      [] pipelineType = "bool" -> Bool(value \in {<<"t", "r", "u", "e">>, <<"T", "r", "u", "e">>, <<"1">>})
      [] OTHER -> Str(value)

\* the match of ^\{(\w+)\}$, part_013:194-195
IsReference(t) ==
    /\ Len(t) >= 3 /\ t[1] = "{" /\ t[Len(t)] = "}"
    /\ \A i \in 2..(Len(t) - 1) : IsWord(t[i])
\* part_013:204-209: the placeholders are replaced one input after the other;
\* order is the order in which the range over the map yields the inputs
RECURSIVE replaceEach(_, _, _)
replaceEach(t, order, inputValues) ==
    IF order = <<>> THEN t
    ELSE replaceEach(ReplaceAll(t, <<"{">> \o Head(order) \o <<"}">>,
                                inputValues[Head(order)].value),
                     Tail(order), inputValues)

\* replaceValue, part_013:190-228
RECURSIVE replaceValue(_, _, _)
replaceValue(value, inputValues, order) ==
    CASE "str" \in DOMAIN value ->
           IF IsReference(value.str)
              /\ SubSeq(value.str, 2, Len(value.str) - 1) \in DOMAIN inputValues
             THEN LET input == inputValues[SubSeq(value.str, 2, Len(value.str) - 1)]
                  IN convertValue(input.value, input.pipelineType)
             ELSE Str(replaceEach(value.str, order, inputValues))
      [] "arr" \in DOMAIN value ->
           Arr([i \in DOMAIN value.arr |-> replaceValue(value.arr[i], inputValues, order)])
      [] "obj" \in DOMAIN value ->
           Obj([k \in DOMAIN value.obj |-> replaceValue(value.obj[k], inputValues, order)])
      [] OTHER -> value

\* replaceVariables, part_013:176-187
replaceVariables(override, inputValues, order) ==
    [taskName \in DOMAIN override |->
        [key \in DOMAIN override[taskName] |->
            replaceValue(override[taskName][key], inputValues, order)]]

\* ---- replaceVariables on a fragment and the values of the inputs ----
Orders(S) == {o \in UNION {[1..n -> S] : n \in {Cardinality(S)}} : Range(o) = S}
InputValue(v, ty) == [value |-> v, pipelineType |-> ty]
TextX == <<"x">>
TextY == <<"y">>
TextAB == <<"a", "-", "x">>
\* the inputs x, y and a-x; the value and the kind of x vary
InputMaps ==
    {[n \in {TextX, TextY, TextAB} |->
        CASE n = TextX -> InputValue(v, ty)
          [] n = TextY -> InputValue(<<"7">>, "string")
          [] OTHER -> InputValue(<<"5">>, "int")] :
        v \in {<<"5">>, <<"-", "1", "5">>, <<"+", "7">>, <<"0", "5">>, <<>>, <<"5", "a">>,
               <<" ", "5">>, <<"1">>, <<"t", "r", "u", "e">>, <<"T", "r", "u", "e">>,
               <<"t", "r", "u", "e", " ">>, <<"{", "y", "}">>},
        ty \in {"int", "bool", "string", ""}}
    \cup {[n \in {TextY} |-> InputValue(<<"7">>, "int")]}
    \cup {<<>>}
Ref(n) == <<"{">> \o n \o <<"}">>
Texts ==
    {Ref(TextX), Ref(TextY), Ref(TextAB), Ref(<<"u">>), TextX, <<>>,
     <<"a">> \o Ref(TextX), Ref(TextX) \o Ref(TextY), Ref(TextX) \o <<" ">> \o Ref(TextX),
     <<"{", "x">>, <<"{", "y">> \o Ref(TextX) \o <<"}">>, <<"{", "}">>}
Values ==
    {Str(t) : t \in Texts}
    \cup {Num(5), Bool(FALSE), [null |-> TRUE], Arr(<<>>), Obj(<<>>),
          Arr(<<Str(Ref(TextX)), Num(1), Str(<<"a">> \o Ref(TextX)), Arr(<<Str(Ref(TextY))>>)>>),
          Obj([k |-> Str(Ref(TextX)), x |-> Arr(<<Str(Ref(TextX)), Obj([k |-> Str(Ref(TextY))])>>)])}
ReplaceCalls ==
    {[fn |-> "replaceVariables",
      override |-> [e \in {"A", "B"} |-> IF e = "A" THEN [k \in {"p", "q"} |->
                                                            IF k = "p" THEN v ELSE Str(Ref(TextY))]
                                         ELSE <<>>],
      inputValues |-> m] : v \in Values, m \in InputMaps}

CallReplaceVariables ==
    /\ arg.fn = "replaceVariables"
    /\ ~ret.done
    /\ \E order \in Orders(DOMAIN arg.inputValues) :
         ret' = [done |-> TRUE,
                 result |-> replaceVariables(arg.override, arg.inputValues, order)]
    /\ UNCHANGED <<arg, engineVars, syncVars, auxVars>>

\* ---- mergePipelineOverrides on a task, its stored options and the options ----
\* a pipeline_override: absent, not decodable as entry -> key -> value, or decoded
NoFragment == [set |-> FALSE]
BadFragment == [set |-> TRUE, ok |-> FALSE]
Fragment(doc) == [set |-> TRUE, ok |-> TRUE, doc |-> doc]
Decodes(raw) == raw.set /\ raw.ok

\* mergeOverride keeping the keys the base already has
mergeOverride_KeepFirst(base, override) ==
    [taskName \in DOMAIN base \cup DOMAIN override |->
        IF taskName \notin DOMAIN override THEN base[taskName]
        ELSE IF taskName \notin DOMAIN base THEN override[taskName]
        ELSE [key \in DOMAIN base[taskName] \cup DOMAIN override[taskName] |->
                IF key \in DOMAIN base[taskName] THEN base[taskName][key]
                ELSE override[taskName][key]]]

\* mergeOverride, part_013:246-255
mergeOverride(base, override) ==
    [taskName \in DOMAIN base \cup DOMAIN override |->
        IF taskName \notin DOMAIN override THEN base[taskName]
        ELSE IF taskName \notin DOMAIN base THEN override[taskName]
        ELSE [key \in DOMAIN base[taskName] \cup DOMAIN override[taskName] |->
                IF key \in DOMAIN override[taskName] THEN override[taskName][key]
                ELSE base[taskName][key]]]

\* optionValues[key] of a Go map of strings: the empty text for a missing key
ValueAt(optionValues, key) ==
    IF key \in DOMAIN optionValues THEN optionValues[key] ELSE <<>>
\* part_013:143-155: the value and the kind of every input of an input option
inputValuesOf(optName, optDef, optionValues) ==
    LET names == {optDef.inputs[i].name : i \in DOMAIN optDef.inputs}
        last(n) == optDef.inputs[Max({i \in DOMAIN optDef.inputs : optDef.inputs[i].name = n})]
        stored(n) == ValueAt(optionValues, optName \o <<".">> \o n)
    IN [n \in names |->
          InputValue(IF stored(n) = <<>> THEN last(n).default ELSE stored(n),
                     last(n).pipeline_type)]

\* collectOptionOverrides, part_013:104-167; orders gives, for every input
\* option, the order in which the range over its input values yields them
RECURSIVE collectOptionOverrides(_, _, _, _, _)
collectOptionOverrides(merged, optionNames, optionValues, optionDefs, orders) ==
    IF optionNames = <<>> THEN merged
    ELSE
      LET optName == Head(optionNames)
          optDef == optionDefs[optName]
          selectedValue == ValueAt(optionValues, optName)
          hits == {i \in DOMAIN optDef.cases : optDef.cases[i].name = selectedValue}
          optCase == optDef.cases[Min(hits)]
          withCase == IF Decodes(optCase.pipeline_override)
                        THEN mergeOverride(merged, optCase.pipeline_override.doc)
                        ELSE merged
          processed == replaceVariables(optDef.pipeline_override.doc,
                                        inputValuesOf(optName, optDef, optionValues),
                                        orders[optName])
          here ==
            IF optName \notin DOMAIN optionDefs THEN merged
            ELSE CASE GetType(optDef) \in {"select", "switch"} ->
                        IF selectedValue = <<>> \/ hits = {} THEN merged
                        ELSE collectOptionOverrides(withCase, optCase.option, optionValues,
                                                    optionDefs, orders)
                   [] GetType(optDef) = "input" ->
                        IF Decodes(optDef.pipeline_override)
                          THEN mergeOverride(merged, processed)
                          ELSE merged
                   [] OTHER -> merged
      IN collectOptionOverrides(here, Tail(optionNames), optionValues, optionDefs, orders)

\* part_013:90-94: the stored options as a map, a later entry of a name
\* replacing an earlier one
optionValuesOf(configOptions) ==
    [n \in {configOptions[i].name : i \in DOMAIN configOptions} |->
        configOptions[Max({i \in DOMAIN configOptions : configOptions[i].name = n})].value]

\* mergePipelineOverrides, part_013:76-101: nil for an empty document
mergePipelineOverrides(v2Task, configOptions, optionDefs, orders) ==
    LET start == IF Decodes(v2Task.pipeline_override)
                   THEN mergeOverride(<<>>, v2Task.pipeline_override.doc)
                   ELSE <<>>
        merged == collectOptionOverrides(start, v2Task.option,
                                         optionValuesOf(configOptions), optionDefs, orders)
    IN IF DOMAIN merged = {} THEN [nil |-> TRUE] ELSE [nil |-> FALSE, doc |-> merged]

OrdersOf(optionDefs) ==
    [DOMAIN optionDefs ->
        UNION {Orders({d.inputs[i].name : i \in DOMAIN d.inputs}) :
                 d \in {optionDefs[n] : n \in DOMAIN optionDefs}}]
ValidOrders(optionDefs) ==
    {o \in OrdersOf(optionDefs) :
        \A n \in DOMAIN optionDefs :
            Range(o[n]) = {optionDefs[n].inputs[i].name : i \in DOMAIN optionDefs[n].inputs}
            /\ Len(o[n]) = Cardinality(Range(o[n]))}

OptD == <<"D">>
OptS == <<"S">>
OptW == <<"W">>
One(t) == Str(<<t>>)
P1 == [e \in {"A"} |-> [k \in {"p"} |-> One("1")]]
P2 == [e \in {"A"} |-> [k \in {"p", "q"} |-> IF k = "p" THEN Obj([a |-> One("2")]) ELSE One("2")]]
P3 == [e \in {"A", "B"} |-> [k \in {"p"} |-> IF e = "A" THEN Obj([b |-> One("3")]) ELSE One("3")]]
PX == [e \in {"A"} |-> [k \in {"p", "r"} |->
          IF k = "p" THEN Str(Ref(TextX)) ELSE Str(<<"n">> \o Ref(TextX))]]
PY == [e \in {"B"} |-> [k \in {"p"} |-> Obj([a |-> Str(Ref(TextX))])]]
OCase(n, frag, opts) == [name |-> n, pipeline_override |-> frag, option |-> opts]
OSelect(ty, cs) ==
    [type |-> ty, cases |-> cs, default_case |-> <<>>, inputs |-> <<>>,
     pipeline_override |-> NoFragment]
OInput(frag) ==
    [type |-> "input", cases |-> <<>>, default_case |-> <<>>, pipeline_override |-> frag,
     inputs |-> <<[name |-> TextX, default |-> <<"5">>, pipeline_type |-> "int"]>>]
OTask(e, frag, opts) == [name |-> <<"T">>, entry |-> e, pipeline_override |-> frag, option |-> opts]
OOpt(n, v) == [name |-> n, value |-> v]
OverrideDefs ==
    {[n \in {OptD, OptS, OptW} |->
        CASE n = OptD -> OSelect("", <<OCase(<<"E">>, fE, <<>>), OCase(<<"H">>, fH, <<OptS>>)>>)
          [] n = OptS -> OInput(fS)
          [] OTHER -> OSelect("switch", <<OCase(<<"Y">>, Fragment(P1), <<>>),
                                          OCase(<<"N">>, NoFragment, <<>>)>>)] :
        fE \in {NoFragment, Fragment(P3)},
        fH \in {NoFragment, BadFragment, Fragment(P1), Fragment(P2)},
        fS \in {NoFragment, Fragment(PX), Fragment(PY)}}
OverrideTasks ==
    {OTask("Entry", fT, opts) :
        fT \in {NoFragment, BadFragment, Fragment(P2), Fragment(P3)},
        opts \in {<<OptD>>, <<OptD, OptS>>, <<OptS, OptD>>, <<OptD, OptW>>}}
OverrideOptions ==
    {d \o x \o w :
        d \in {<<>>, <<OOpt(OptD, <<>>)>>, <<OOpt(OptD, <<"E">>)>>, <<OOpt(OptD, <<"H">>)>>,
               <<OOpt(OptD, <<"E">>), OOpt(OptD, <<"H">>)>>, <<OOpt(OptD, <<"G">>)>>},
        x \in {<<>>, <<OOpt(OptS \o <<".">> \o TextX, <<"7">>)>>},
        w \in {<<>>, <<OOpt(OptW, <<"Y">>)>>}}
MergeCalls ==
    {[fn |-> "mergePipelineOverrides", v2Task |-> t, configOptions |-> c, optionDefs |-> d] :
        t \in OverrideTasks, c \in OverrideOptions, d \in OverrideDefs}

CallMergePipelineOverrides ==
    /\ arg.fn = "mergePipelineOverrides"
    /\ ~ret.done
    /\ \E orders \in ValidOrders(arg.optionDefs) :
         ret' = [done |-> TRUE,
                 result |-> mergePipelineOverrides(arg.v2Task, arg.configOptions,
                                                   arg.optionDefs, orders)]
    /\ UNCHANGED <<arg, engineVars, syncVars, auxVars>>

\* ---- GetTaskList on a config and an interface ----
\* GetConfig, part_002:449-460: an empty config when the service has none
GetConfig(cfg) ==
    IF cfg.nil THEN [nil |-> FALSE, controller |-> NoController, resource |-> "", task |-> <<>>]
    ELSE cfg

\* the plan with an item for every task that resolves, checked or not
TaskList_IgnoreChecked(cfg, f, orders) ==
    LET taskMap(n) == f.task[Max({i \in DOMAIN f.task : f.task[i].name = n})]
        exists(n) == \E i \in DOMAIN f.task : f.task[i].name = n
        picked == SelectSeq(GetConfig(cfg).task, LAMBDA c : exists(c.name))
    IN [i \in DOMAIN picked |->
          [id |-> picked[i].id, entry |-> taskMap(picked[i].name).entry,
           pipeline_override |-> mergePipelineOverrides(taskMap(picked[i].name),
                                     picked[i].option, f.option, orders)]]

\* GetTaskList, part_013:24-73, with the tasks themselves: taskMap holds for
\* every name the last task of that name; f.nil stands for an interface that
\* is not loaded
TaskList(cfg, f, orders) ==
    LET taskMap(n) == f.task[Max({i \in DOMAIN f.task : f.task[i].name = n})]
        exists(n) == \E i \in DOMAIN f.task : f.task[i].name = n
        picked == SelectSeq(GetConfig(cfg).task, LAMBDA c : c.checked /\ exists(c.name))
    IN [i \in DOMAIN picked |->
          [id |-> picked[i].id, entry |-> taskMap(picked[i].name).entry,
           pipeline_override |-> mergePipelineOverrides(taskMap(picked[i].name),
                                     picked[i].option, f.option, orders)]]

PlanDefs ==
    [n \in {OptD, OptS, OptW} |->
        CASE n = OptD -> OSelect("", <<OCase(<<"E">>, Fragment(P3), <<>>),
                                       OCase(<<"H">>, Fragment(P1), <<OptS>>)>>)
          [] n = OptS -> OInput(Fragment(PX))
          [] OTHER -> OSelect("switch", <<OCase(<<"Y">>, Fragment(P1), <<>>),
                                          OCase(<<"N">>, NoFragment, <<>>)>>)]
NamedTask(n, e) == [OTask(e, NoFragment, <<OptD>>) EXCEPT !.name = n]
PlanInterfaces ==
    {[nil |-> FALSE, task |-> ts, option |-> PlanDefs] :
        ts \in {<<NamedTask(<<"T">>, "EntryT")>>,
                <<NamedTask(<<"U">>, "EntryU")>>,
                <<NamedTask(<<"T">>, "EntryT"), NamedTask(<<"U">>, "EntryU")>>,
                <<NamedTask(<<"T">>, "EntryT"), NamedTask(<<"U">>, "EntryU"),
                  NamedTask(<<"T">>, "EntryT2")>>}}
PlanConfigs ==
    LET First == {CfgTask("a", n, c, o) :
                    n \in {<<"T">>, <<"U">>, <<"G">>}, c \in BOOLEAN,
                    o \in {<<>>, <<OOpt(OptD, <<"H">>)>>}}
        Later(id) == {CfgTask(id, n, c, <<OOpt(OptD, <<"E">>)>>) :
                        n \in {<<"T">>, <<"U">>, <<"G">>}, c \in BOOLEAN}
    IN {[nil |-> FALSE, controller |-> NoController, resource |-> "", task |-> ts] :
          ts \in {<<>>} \cup {<<a>> : a \in First}
                 \cup {<<a, b>> : a \in First, b \in Later("b")}
                 \cup {<<a, b, c>> : a \in First, b \in Later("b"), c \in Later("c")}}
PlanCalls ==
    {[fn |-> "GetTaskList", config |-> c, v2Loaded |-> f] :
        c \in PlanConfigs, f \in PlanInterfaces}
    \cup {[fn |-> "GetTaskList", config |-> c, v2Loaded |-> [nil |-> TRUE]] :
            c \in {d \in PlanConfigs : Len(d.task) <= 1}}
    \cup {[fn |-> "GetTaskList", config |-> NilConfig, v2Loaded |-> f] : f \in PlanInterfaces}

CallGetTaskList ==
    /\ arg.fn = "GetTaskList"
    /\ ~ret.done
    /\ IF arg.v2Loaded.nil
         THEN ret' = [done |-> TRUE, tasks |-> <<>>]
         ELSE \E orders \in ValidOrders(arg.v2Loaded.option) :
                ret' = [done |-> TRUE,
                        tasks |-> TaskList(arg.config, arg.v2Loaded, orders)]
    /\ UNCHANGED <<arg, engineVars, syncVars, auxVars>>

\* ---- ResolveString on a text and a language ----
\* IsI18nString, pi.go:147-149
IsI18nString(t) == Len(t) > 0 /\ t[1] = "$" /\ Len(t) # 1
\* GetI18nKey, pi.go:152-157
GetI18nKey(t) == IF IsI18nString(t) THEN Tail(t) ELSE t
\* V2I18nResolver.Resolve, part_012:200-209
Resolve(translations, t) ==
    IF ~IsI18nString(t) THEN t
    ELSE IF GetI18nKey(t) \in DOMAIN translations THEN translations[GetI18nKey(t)]
    ELSE t
\* LoadV2FromFile, part_012:227-235: a resolver for every declared language
\* whose translation file is read and decoded
Resolvers(files) ==
    [lang \in {l \in DOMAIN files : files[l].exists /\ files[l].json} |->
        files[lang].translations]

\* ResolveString returning the text itself for a language without a resolver
ResolveString_KeepReference(resolvers, t, lang) ==
    IF ~IsI18nString(t) THEN t
    ELSE IF lang \in DOMAIN resolvers THEN Resolve(resolvers[lang], t)
    ELSE t

\* V2Loaded.ResolveString, part_012:254-262
ResolveString(resolvers, t, lang) ==
    IF ~IsI18nString(t) THEN t
    ELSE IF lang \in DOMAIN resolvers THEN Resolve(resolvers[lang], t)
    ELSE GetI18nKey(t)

KeyK == <<"k">>
I18nTexts ==
    {<<>>, <<"$">>, KeyK, <<"$">> \o KeyK, <<" ", "$">> \o KeyK, <<"$", "$">> \o KeyK,
     <<"$", "a">>, KeyK \o <<"$">>}
TranslationFiles ==
    {NoFile, BadFile}
    \cup {[exists |-> TRUE, json |-> TRUE, translations |-> m] :
            m \in {<<>>,
                   [k \in {KeyK} |-> <<"K">>],
                   [k \in {KeyK, <<"$">> \o KeyK} |-> IF k = KeyK THEN <<>> ELSE <<"$", "D">>]}}
ResolveCalls ==
    {[fn |-> "ResolveString", files |-> f, s |-> t, lang |-> l] :
        f \in [{"en", "zh"} -> TranslationFiles] \cup [{"en"} -> TranslationFiles] \cup {<<>>},
        t \in I18nTexts, l \in {"en", "zh", "fr"}}

CallResolveString ==
    /\ arg.fn = "ResolveString"
    /\ ~ret.done
    /\ ret' = [done |-> TRUE,
               result |-> ResolveString(Resolvers(arg.files), arg.s, arg.lang)]
    /\ UNCHANGED <<arg, engineVars, syncVars, auxVars>>

\* ---- handleInitError after an acquisition that failed ----
\* localCleanup, service.go:86-103: the releases it makes, in the order of its
\* statements, for local variables l
cleanupSteps(l) ==
    SelectSeq(<<"tasker", "agent", "res", "ctrl", "agentCmd">>, LAMBDA x : l[x])
\* handleInitError, service.go:64-75: what it does, in order
initErrorSteps(l) ==
    <<"app:error">> \o cleanupSteps(l) \o <<"isRunning = false", "engine:running false">>
RollbackCalls ==
    {[fn |-> "handleInitError", iface |-> f, l |-> o.l] :
        f \in {"nil", "plain", "agent"},
        o \in UNION {{a \in Acquisition(g) : a.next = "fail"} : g \in {"nil", "plain", "agent"}}}

CallHandleInitError ==
    /\ arg.fn = "handleInitError"
    /\ ~ret.done
    /\ ret' = [done |-> TRUE, steps |-> initErrorSteps(arg.l)]
    /\ UNCHANGED <<arg, engineVars, syncVars, auxVars>>

\* ---- one Start() of the engine on a persisted config, with no other call ----
\* V2Controller with its Win32 block present or nil (piv2.go:29-40)
CtrlDef(n, ty, w) ==
    [name |-> n, type |-> ty, display_short_side |-> "nil",
     display_long_side |-> "nil", display_raw |-> FALSE, win32 |-> w]
ControllerDefs ==
    {<<>>,
     <<CtrlDef("A", "Adb", "nil")>>,
     <<CtrlDef("W", "Win32", "set")>>,
     <<CtrlDef("W", "Win32", "nil")>>,
     <<CtrlDef("A", "Adb", "nil"), CtrlDef("W", "Win32", "set")>>}
\* the validated interface with controllers cs, one resource and no task
InterfaceWith(cs) ==
    [interface_version |-> 2, name |-> "App", controller |-> cs,
     resource |-> <<Res("R", <<"./res">>, <<>>)>>, agent |-> NoAgent,
     task |-> <<>>, option |-> <<>>]
\* InterfaceConfig as the engine reads it (config.go:35-41): the controller
\* chosen and the Adb block, a pointer that is nil when no block is stored
PiConf(cfg, adb) == [controller |-> cfg.controller, adb |-> adb]
\* initDefaultConfig, part_002:41-60: the literal sets Controller, Resource and
\* Task; the Adb block stays nil
defaultPiConf(f) == PiConf(initDefaultConfig(f), "nil")
\* the results of the backend calls of one Start(): createRes, a desktop window
\* found, the controller created and connected, the two Bind calls
Backends == [res : BOOLEAN, windows : BOOLEAN, ctrl : BOOLEAN, bind : BOOLEAN]
StartCalls ==
    {[fn |-> "Start", iface |-> InterfaceWith(cs), piConf |-> c, backend |-> b] :
        cs \in {ds \in ControllerDefs : validateV2(InterfaceWith(ds))},
        c \in UNION {{defaultPiConf(InterfaceWith(ds)),
                      PiConf(initDefaultConfig(InterfaceWith(ds)), "set")} :
                        ds \in ControllerDefs},
        b \in Backends}

\* createAdbCtrl, service.go:232-259: "ctrl", "error", or "panic" for the nil
\* dereference of piConf.Adb at line 233
createAdbCtrl(piConf, b) ==
    IF piConf.adb = "nil" THEN "panic"
    ELSE IF b.ctrl THEN "ctrl" ELSE "error"
\* createWin32Ctrl, service.go:261-329; piv2's Win32 block is dereferenced at
\* line 284 once a desktop window has been found
createWin32Ctrl(f, b) ==
    LET S == {i \in DOMAIN f.controller : f.controller[i].type = "Win32"}
    IN IF Len(f.controller) = 0 \/ S = {} THEN "error"
       ELSE IF ~b.windows THEN "error"
       ELSE IF f.controller[Min(S)].win32 = "nil" THEN "panic"
       ELSE IF b.ctrl THEN "ctrl" ELSE "error"
\* createCtrl, service.go:221-230
createCtrlOf(f, piConf, b) ==
    CASE piConf.controller.type = "Adb"   -> createAdbCtrl(piConf, b)
      [] piConf.controller.type = "Win32" -> createWin32Ctrl(f, b)
      [] OTHER                            -> "error"
\* Start(), service.go:49-184, from Idle with no concurrent call: the value of
\* isRunning, whether the handles are published, the engine:running and
\* app:error notifications in order, and whether Start() returned
runStart(f, piConf, b) ==
    LET failed == [isRunning |-> FALSE, published |-> FALSE, returned |-> TRUE,
                   notes |-> <<"active", "app:error", "inactive">>]
        c == createCtrlOf(f, piConf, b)
    IN IF ~b.res THEN failed                                   \* lines 118-121
       ELSE IF c = "panic"
         THEN [isRunning |-> TRUE, published |-> FALSE, returned |-> FALSE,
               notes |-> <<"active">>]
       ELSE IF c = "error" THEN failed                         \* lines 125-128
       ELSE IF ~b.bind THEN failed                             \* lines 139-146
       ELSE [isRunning |-> TRUE, published |-> TRUE, returned |-> TRUE,
             notes |-> <<"active">>]

CallStart ==
    /\ arg.fn = "Start"
    /\ ~ret.done
    /\ ret' = [done |-> TRUE, end |-> runStart(arg.iface, arg.piConf, arg.backend)]
    /\ UNCHANGED <<arg, engineVars, syncVars, auxVars>>

\* ---- the recursive walks, one recursive call at a time ----
\* the deepest recursion followed; no walk of a schema without a cycle nests
\* deeper than its number of select and switch options plus one
MaxDepth == 4
\* schemas in which a case may nest the option it belongs to, directly (A in
\* A) or through another option (A in B in A)
LoopDefs ==
    {[n \in {"A", "B", "I"} |->
        CASE n = "A" -> [type |-> "select", inputs |-> <<>>, default_case |-> d,
                         cases |-> <<Case("On", x), Case("Off", <<>>)>>]
          [] n = "B" -> [type |-> "switch", inputs |-> <<>>, default_case |-> "",
                         cases |-> <<Case("Yes", <<>>), Case("No", y)>>]
          [] OTHER   -> InputOption("x", "5", "int")] :
        d \in {"", "Off"}, x \in {<<>>, <<"A">>, <<"B">>, <<"I">>}, y \in {<<>>, <<"A">>}}
LoopSchema(names, defs) ==
    [interface_version |-> 2, name |-> "App", controller |-> <<>>, resource |-> <<>>,
     agent |-> NoAgent, task |-> <<Task("T", names)>>, option |-> defs]
\* the stored values of a task: none, or a choice for A, or for A and B
LoopValues ==
    {<<>>, [n \in {"A"} |-> "On"], [n \in {"A"} |-> "Off"],
     [n \in {"A", "B"} |-> IF n = "A" THEN "On" ELSE "No"]}
WalkerCalls ==
    {[fn |-> "walk", walker |-> w, optionNames |-> names, optionDefs |-> defs,
      values |-> v] :
        w \in {"defaults", "expected", "overrides"},
        names \in {<<"A">>, <<"B", "A">>},
        defs \in {d \in LoopDefs : validateV2(LoopSchema(<<"A">>, d))},
        v \in LoopValues}

\* the option list of case c of optDef, c = 0 for no case
NestedOf(optDef, c) == IF c = 0 THEN <<>> ELSE optDef.cases[c].option
\* collectOptionDefaults, part_002:107-162: the option list it recurses into
nestedDefaults(optDef) ==
    CASE GetType(optDef) = "select" -> NestedOf(optDef, selectDefault(optDef).case)
      [] GetType(optDef) = "switch" -> NestedOf(optDef, switchDefault(optDef).case)
      [] OTHER -> <<>>
\* collectExpectedOptions, part_002:326-398: the option list it recurses into
nestedExpected(optDef, value) ==
    CASE GetType(optDef) = "select" ->
           NestedOf(optDef, FindCase(optDef.cases,
                                     IF value = "" THEN selectDefault(optDef).value
                                                   ELSE value))
      [] GetType(optDef) = "switch" ->
           NestedOf(optDef, IF value = "" THEN FirstNoCase(optDef.cases)
                                          ELSE FindCase(optDef.cases, value))
      [] OTHER -> <<>>
\* collectOptionOverrides, part_013:114-137: the option list it recurses into
nestedOverrides(optDef, value) ==
    IF GetType(optDef) \in {"select", "switch"} /\ value # ""
      THEN NestedOf(optDef, FindCase(optDef.cases, value))
      ELSE <<>>
\* the option list walker w recurses into at option optName
Nested(w, optName, values, optionDefs) ==
    IF optName \notin DOMAIN optionDefs THEN <<>>
    ELSE CASE w = "defaults" -> nestedDefaults(optionDefs[optName])
           [] w = "expected" -> nestedExpected(optionDefs[optName], Get(values, optName))
           [] OTHER          -> nestedOverrides(optionDefs[optName], Get(values, optName))

\* the frames of the walk: for each call of the walker that has not returned,
\* the option names its loop has yet to visit; the last frame is the innermost
Frames == IF "stack" \in DOMAIN ret THEN ret.stack ELSE <<arg.optionNames>>
Walking(st) == [done |-> FALSE, stack |-> st, overflow |-> FALSE]
\* One step of a walk: the innermost loop visits its next option name and
\* recurses into the chosen case's option list if it is not empty, or ends and
\* its call returns. A recursion deeper than MaxDepth is followed no further:
\* the walk has entered an option that is already on its path.
WalkStep ==
    /\ arg.fn = "walk"
    /\ ~ret.done
    /\ ("overflow" \in DOMAIN ret => ~ret.overflow)
    /\ LET st == Frames
           top == st[Len(st)]
           rest == [st EXCEPT ![Len(st)] = Tail(top)]
           nested == Nested(arg.walker, Head(top), arg.values, arg.optionDefs)
       IN IF top = <<>>
            THEN IF Len(st) = 1
                   THEN ret' = [done |-> TRUE, stack |-> <<>>, overflow |-> FALSE]
                   ELSE ret' = Walking(SubSeq(st, 1, Len(st) - 1))
          ELSE IF nested = <<>> THEN ret' = Walking(rest)
          ELSE IF Len(st) >= MaxDepth
            THEN ret' = [done |-> FALSE, stack |-> rest, overflow |-> TRUE]
          ELSE ret' = Walking(Append(rest, nested))
    /\ UNCHANGED <<arg, engineVars, syncVars, auxVars>>

\* one call, of any of the functions, has been made and has not returned
FnInit ==
    /\ \/ arg \in SwitchCalls
       \/ arg \in ParseCalls
       \/ arg \in StartupCalls
       \/ arg \in ReplaceCalls
       \/ arg \in MergeCalls
       \/ arg \in PlanCalls
       \/ arg \in ResolveCalls
       \/ arg \in RollbackCalls
       \/ arg \in WalkCalls
       \/ arg \in StartCalls
       \/ arg \in WalkerCalls
    /\ ret = NotReturned
FnNext ==
    \/ WalkSwitch
    \/ CallParseV2
    \/ Startup
    \/ CallReplaceVariables
    \/ CallMergePipelineOverrides
    \/ CallGetTaskList
    \/ CallResolveString
    \/ CallHandleInitError
    \/ WalkOptions
    \/ CallStart
    \/ WalkStep

\* no call of a single function is being followed
FnAtRest == arg = NoCall /\ ret = NotReturned

(***************************************************************************)
(* Part IV: concurrent SaveConfig() calls, part_002:430-469                *)
(***************************************************************************)
\* SaveConfig() calls made at the same time by the presentation layer
MaxSavers == 2
SaveIds == 1..MaxSavers

\* the config loaded at startup, and the config call c passes: the same with
\* another resource selected
LoadedAtStartup == initDefaultConfig(InterfaceWith(<<CtrlDef("A", "Adb", "nil")>>))
ConfigOf(c) == [LoadedAtStartup EXCEPT !.resource = "R" \o ToString(c)]
\* os.WriteFile opens the file with O_TRUNC before it writes: the empty file
Truncated == [exists |-> TRUE, json |-> FALSE, size |-> 0]
\* what json.MarshalIndent and a completed write leave in the file
Encoded(cfg) == saveConfig(cfg, NoFile, TRUE)

\* what a SaveConfig() call leaves alone
SaveFrame ==
    /\ UNCHANGED <<v2Loaded, changed, lastOp, prevOp, before, nEdits>>
    /\ UNCHANGED <<engineVars, fnVars, lockVars>>

SaveInit ==
    /\ config = LoadedAtStartup
    /\ configFile = Encoded(LoadedAtStartup)
    /\ configMu = 0
    /\ savePc = [c \in SaveIds |-> "idle"]
    /\ saveData = [c \in SaveIds |-> NilConfig]

\* line 464: s.configMu.Lock()
SaveLock(c) ==
    /\ savePc[c] = "idle"
    /\ configMu = 0
    /\ configMu' = c
    /\ savePc' = [savePc EXCEPT ![c] = "locked"]
    /\ UNCHANGED <<config, configFile, saveData>>
    /\ SaveFrame

\* lines 465-466: s.config = config; s.configMu.Unlock()
SaveStore(c) ==
    /\ savePc[c] = "locked"
    /\ config' = ConfigOf(c)
    /\ configMu' = 0
    /\ savePc' = [savePc EXCEPT ![c] = "stored"]
    /\ UNCHANGED <<configFile, saveData>>
    /\ SaveFrame

\* saveConfig, lines 432-439, without the lock: s.config is read, checked for
\* nil and encoded
SaveMarshal(c) ==
    /\ savePc[c] = "stored"
    /\ IF config.nil
         THEN /\ savePc' = [savePc EXCEPT ![c] = "failed"]
              /\ UNCHANGED saveData
         ELSE /\ saveData' = [saveData EXCEPT ![c] = config]
              /\ savePc' = [savePc EXCEPT ![c] = "encoded"]
    /\ UNCHANGED <<config, configFile, configMu>>
    /\ SaveFrame

\* saveConfig, line 441: os.WriteFile opens the file and truncates it, or fails
SaveOpen(c) ==
    /\ savePc[c] = "encoded"
    /\ \/ /\ configFile' = Truncated
          /\ savePc' = [savePc EXCEPT ![c] = "opened"]
       \/ /\ savePc' = [savePc EXCEPT ![c] = "failed"]
          /\ UNCHANGED configFile
    /\ UNCHANGED <<config, configMu, saveData>>
    /\ SaveFrame

\* saveConfig, lines 441-445: os.WriteFile writes the data at offset 0 and
\* SaveConfig returns nil. Data written over what another call wrote since the
\* file was opened replaces it, or leaves its tail behind when it is shorter.
SaveWrite(c) ==
    /\ savePc[c] = "opened"
    /\ IF configFile = Truncated
         THEN configFile' = Encoded(saveData[c])
         ELSE configFile' \in {Encoded(saveData[c]), BadFile}
    /\ savePc' = [savePc EXCEPT ![c] = "returned"]
    /\ UNCHANGED <<config, configMu, saveData>>
    /\ SaveFrame

SaveNext ==
    \E c \in SaveIds :
        SaveLock(c) \/ SaveStore(c) \/ SaveMarshal(c) \/ SaveOpen(c) \/ SaveWrite(c)

\* no SaveConfig() call is being followed
SaveAtRest ==
    /\ configMu = 0
    /\ configFile = NoFile
    /\ savePc = [c \in SaveIds |-> "idle"]
    /\ saveData = [c \in SaveIds |-> NilConfig]
\* the pi service with a config loaded and no other call made on it
PiLoaded ==
    /\ v2Loaded = [task |-> <<>>, option |-> <<>>]
    /\ changed = FALSE
    /\ lastOp = NoOp /\ prevOp = NoOp
    /\ before = NilConfig
    /\ nEdits = 0

(***************************************************************************)
(* Part V: the lock of the engine, service.go:28-431. Every Lock, RLock    *)
(* and Unlock is a step of its own, and so is the return of every call     *)
(* into the backend that may block.                                        *)
(***************************************************************************)
\* the goroutines: two Start() calls, each going on as its executor and the
\* executor's deferred Stop(); a Stop() and a GetIsRunning() of the
\* presentation layer
Starters == {"start1", "start2"}
Stoppers == Starters \cup {"stop"}
Goroutines == Stoppers \cup {"query"}
\* positions inside a backend call that may block: the acquisition (NewTasker,
\* post bundle, post connect, the agent's connect, the binds), the Destroy
\* calls of a cleanup, PostTask().Wait(), and the teardown of Stop()
InBackend == {"acquiring", "failCleanup", "abortCleanup", "posting", "teardown"}

\* sync.RWMutex
NoHolder == [w |-> "", r |-> {}]
Lock(g) == mu.w = "" /\ mu.r = {} /\ mu' = [mu EXCEPT !.w = g]
Unlock == mu' = [mu EXCEPT !.w = ""]
RLock(g) == mu.w = "" /\ mu' = [mu EXCEPT !.r = @ \cup {g}]
RUnlock(g) == mu' = [mu EXCEPT !.r = @ \ {g}]
Goto(g, pos) == at' = [at EXCEPT ![g] = pos]

\* what the steps of this part leave alone
LockFrame ==
    /\ UNCHANGED <<res, ctrl, agent, agentCmd, iface, nChecked, pc, hnd, plan, idx,
                   exTasker, spc, cap, events, errs>>
    /\ UNCHANGED <<syncVars, fnVars, saveVars>>

LockInit ==
    /\ mu = NoHolder
    /\ at = [g \in Goroutines |-> "idle"]
    /\ left = [g \in Starters |-> 0]

\* the presentation layer calls Start(), Stop() or GetIsRunning()
Called(g) ==
    /\ at[g] = "idle"
    /\ Goto(g, CASE g \in Starters -> "line51" [] g = "stop" -> "line378" [] OTHER -> "line44")
    /\ UNCHANGED <<mu, left, isRunning, tasker>>
    /\ LockFrame

\* Start, line 51: s.mu.Lock()
StartLock(g) ==
    /\ at[g] = "line51"
    /\ Lock(g)
    /\ Goto(g, "line52")
    /\ UNCHANGED <<left, isRunning, tasker>>
    /\ LockFrame

\* Faulty variant: a Start that enters its acquisition with the lock held.
StartSection_KeepsLock(g) ==
    /\ at[g] = "line52"
    /\ IF isRunning
         THEN Goto(g, "done") /\ Unlock /\ UNCHANGED isRunning
         ELSE isRunning' = TRUE /\ Goto(g, "acquiring") /\ UNCHANGED mu
    /\ UNCHANGED <<left, tasker>>
    /\ LockFrame

\* Start, lines 52-61: return if running; else set isRunning and unlock, emit
\* "session active" and enter the acquisition
StartSection(g) ==
    /\ at[g] = "line52"
    /\ IF isRunning
         THEN Goto(g, "done") /\ UNCHANGED isRunning
         ELSE isRunning' = TRUE /\ Goto(g, "acquiring")
    /\ Unlock
    /\ UNCHANGED <<left, tasker>>
    /\ LockFrame

\* Start, lines 77-146: the backend calls of the acquisition return, with the
\* handles or with an error (handleInitError then runs cleanupFunc, lines 68-70)
AcquisitionReturns(g) ==
    /\ at[g] = "acquiring"
    /\ \/ Goto(g, "line148")
       \/ Goto(g, "failCleanup")
    /\ UNCHANGED <<mu, left, isRunning, tasker>>
    /\ LockFrame

\* handleInitError, lines 68-70: the Destroy calls of cleanupFunc return
FailCleanupReturns(g) ==
    /\ at[g] = "failCleanup"
    /\ Goto(g, "line71")
    /\ UNCHANGED <<mu, left, isRunning, tasker>>
    /\ LockFrame

\* handleInitError, line 71: s.mu.Lock()
FailLock(g) ==
    /\ at[g] = "line71"
    /\ Lock(g)
    /\ Goto(g, "line72")
    /\ UNCHANGED <<left, isRunning, tasker>>
    /\ LockFrame

\* handleInitError, lines 72-74: isRunning = false, unlock, emit; Start returns
FailSection(g) ==
    /\ at[g] = "line72"
    /\ isRunning' = FALSE
    /\ Unlock
    /\ Goto(g, "done")
    /\ UNCHANGED <<left, tasker>>
    /\ LockFrame

\* Start, line 148: s.mu.Lock()
PublishLock(g) ==
    /\ at[g] = "line148"
    /\ Lock(g)
    /\ Goto(g, "line150")
    /\ UNCHANGED <<left, isRunning, tasker>>
    /\ LockFrame

\* Start, lines 150-165: stopped meanwhile: unlock, then localCleanup(); else
\* publish, unlock, build the plan and launch the executor
PublishSection(g) ==
    /\ at[g] = "line150"
    /\ IF ~isRunning
         THEN Goto(g, "abortCleanup") /\ UNCHANGED <<tasker, left>>
         ELSE /\ tasker' = 1
              /\ left' = [left EXCEPT ![g] = nChecked]
              /\ Goto(g, "line169")
    /\ Unlock
    /\ UNCHANGED isRunning
    /\ LockFrame

\* Start, line 153: the Destroy calls of localCleanup return; Start returns
AbortCleanupReturns(g) ==
    /\ at[g] = "abortCleanup"
    /\ Goto(g, "done")
    /\ UNCHANGED <<mu, left, isRunning, tasker>>
    /\ LockFrame

\* executor, lines 167-169: the loop ends and the deferred Stop() is called, or
\* s.mu.RLock()
ExecRLock(g) ==
    /\ at[g] = "line169"
    /\ IF left[g] = 0
         THEN Goto(g, "line378") /\ UNCHANGED mu
         ELSE RLock(g) /\ Goto(g, "line170")
    /\ UNCHANGED <<left, isRunning, tasker>>
    /\ LockFrame

\* executor, lines 170-179: read isRunning and s.tasker, RUnlock; return into the
\* deferred Stop(), or call PostTask().Wait()
ExecSection(g) ==
    /\ at[g] = "line170"
    /\ RUnlock(g)
    /\ Goto(g, IF ~isRunning \/ tasker = 0 THEN "line378" ELSE "posting")
    /\ UNCHANGED <<left, isRunning, tasker>>
    /\ LockFrame

\* executor, lines 179-181: PostTask().Wait() returns
PostReturns(g) ==
    /\ at[g] = "posting"
    /\ left' = [left EXCEPT ![g] = @ - 1]
    /\ Goto(g, "line169")
    /\ UNCHANGED <<mu, isRunning, tasker>>
    /\ LockFrame

\* Stop, line 378: s.mu.Lock()
StopLock(g) ==
    /\ at[g] = "line378"
    /\ Lock(g)
    /\ Goto(g, "line379")
    /\ UNCHANGED <<left, isRunning, tasker>>
    /\ LockFrame

\* Stop, lines 379-397: return if not running; else clear isRunning, capture the
\* fields and nil them, unlock and enter the teardown
StopSection(g) ==
    /\ at[g] = "line379"
    /\ IF ~isRunning
         THEN Goto(g, "done") /\ UNCHANGED <<isRunning, tasker>>
         ELSE isRunning' = FALSE /\ tasker' = 0 /\ Goto(g, "teardown")
    /\ Unlock
    /\ UNCHANGED left
    /\ LockFrame

\* Stop, lines 399-431: PostStop().Wait(), the Destroy calls and the child's
\* Kill()/Wait() return; emit "session inactive"; Stop returns
TeardownReturns(g) ==
    /\ at[g] = "teardown"
    /\ Goto(g, "done")
    /\ UNCHANGED <<mu, left, isRunning, tasker>>
    /\ LockFrame

\* GetIsRunning, line 44: s.mu.RLock()
QueryRLock ==
    /\ at["query"] = "line44"
    /\ RLock("query")
    /\ Goto("query", "line46")
    /\ UNCHANGED <<left, isRunning, tasker>>
    /\ LockFrame

\* GetIsRunning, lines 45-46: return s.isRunning with the deferred RUnlock
QueryReturn ==
    /\ at["query"] = "line46"
    /\ RUnlock("query")
    /\ Goto("query", "done")
    /\ UNCHANGED <<left, isRunning, tasker>>
    /\ LockFrame

\* the steps of goroutine g that wait for nothing but the lock
Runs(g) ==
    \/ g \in Starters /\ (\/ StartLock(g) \/ StartSection(g) \/ FailLock(g) \/ FailSection(g)
                          \/ PublishLock(g) \/ PublishSection(g)
                          \/ ExecRLock(g) \/ ExecSection(g))
    \/ g \in Stoppers /\ (StopLock(g) \/ StopSection(g))
    \/ g = "query" /\ (QueryRLock \/ QueryReturn)
LockNext ==
    \/ \E g \in Goroutines : Called(g)
    \/ \E g \in Starters :
         \/ StartLock(g) \/ StartSection(g)
         \/ AcquisitionReturns(g) \/ FailCleanupReturns(g) \/ FailLock(g) \/ FailSection(g)
         \/ PublishLock(g) \/ PublishSection(g) \/ AbortCleanupReturns(g)
         \/ ExecRLock(g) \/ ExecSection(g) \/ PostReturns(g)
    \/ \E g \in Stoppers : StopLock(g) \/ StopSection(g) \/ TeardownReturns(g)
    \/ QueryRLock \/ QueryReturn

\* the lock of the engine is not being followed
LockAtRest ==
    /\ mu = NoHolder
    /\ at = <<>>
    /\ left = <<>>

vars == <<engineVars, syncVars, fnVars, auxVars>>
Init == EngineInit /\ PiAtRest /\ FnAtRest /\ SaveAtRest /\ LockAtRest
Next == EngineNext
Spec == Init /\ [][Next]_vars

InitPi == PiInit /\ EngineAtRest /\ FnAtRest /\ SaveAtRest /\ LockAtRest
SpecPi == InitPi /\ [][PiNext]_vars

InitFn == FnInit /\ EngineAtRest /\ PiAtRest /\ SaveAtRest /\ LockAtRest
SpecFn == InitFn /\ [][FnNext]_vars
\* the recursive walks are run to their end: a walk that can take a step takes it
SpecWalk == SpecFn /\ WF_vars(WalkStep)

InitSave == SaveInit /\ PiLoaded /\ EngineAtRest /\ FnAtRest /\ LockAtRest
SpecSave == InitSave /\ [][SaveNext]_vars

\* The Go scheduler runs every goroutine that is not blocked: a step that waits
\* for nothing but the lock is taken if it stays possible. Nothing is assumed of
\* the backend: a call into it may never return.
InitLock == LockInit /\ EngineInit /\ iface = "plain" /\ PiAtRest /\ FnAtRest /\ SaveAtRest
SpecLock == InitLock /\ [][LockNext]_vars /\ \A g \in Goroutines : WF_vars(Runs(g))

(***************************************************************************)
(* Properties of the engine lifecycle                                      *)
(***************************************************************************)
ExternalStops == {p \in StopIds : ~IsExecStop(p)}
\* Start call i is the only one that started a session: every other call has
\* not been made or returned at once
OnlySession(i) == \A j \in StartIds \ {i} : pc[j] \in {"idle", "noop"}
\* no Stop() of the presentation layer has been invoked
NoStopInvoked == \A p \in ExternalStops : spc[p] = "idle"
\* every Stop() that was invoked has returned
StopsReturned == \A p \in StopIds : spc[p] \in {"idle", "noop", "done"}
\* a Start call that found isRunning set leaves everything but its own position
StartIsNoOp(j) ==
    /\ pc'[j] = "noop"
    /\ UNCHANGED <<isRunning, fieldVars, hnd, execVars, stopVars, events, errs>>
Completed == {"succeeded", "failed", "done"}

\* C1: a Start() that arrives while an earlier one is Starting or Running
\* returns at once, changes no state and creates no handle; as long as no
\* Stop() and no failure ended the session, one call at most has run the
\* acquisition and one "session active" notification at most was emitted.
C1_SecondStartReturnsAtOnce ==
    /\ [](((\A p \in StopIds : spc[p] = "idle")
            /\ (\A i \in StartIds : pc[i] \notin {"failEmit", "failed"}))
          => /\ Cardinality({i \in StartIds : pc[i] \notin {"idle", "noop"}}) <= 1
             /\ events.active <= 1
             /\ events.active = Cardinality({i \in StartIds :
                                    pc[i] \notin {"idle", "noop", "emit"}})
             /\ \A j \in StartIds : pc[j] = "noop" => hnd[j] = NoHandles)
    /\ [][\A j \in StartIds :
            (pc[j] = "idle" /\ pc'[j] # "idle" /\ isRunning) => StartIsNoOp(j)]_vars
C1_Witness ==
    /\ pc[1] = "exWait" /\ pc[2] = "noop"
    /\ events.active = 1 /\ events.inactive = 0

\* C2: Stop() invoked after Start() marked the session active and before the
\* handles were published: once both have returned the state is Idle, every
\* handle field is empty, every handle Start() created is destroyed and no
\* executor was launched.
C2_StopDuringAcquisition ==
    \A i \in StartIds :
        ( /\ OnlySession(i)
          /\ \E p \in ExternalStops : spc[p] = "done" /\ cap[p] = NilFields
          /\ StopsReturned
          /\ pc[i] \notin {"idle", "emit", "acquire", "failEmit", "panicked"} )
        => /\ pc[i] \in {"aborted", "failed"}
           /\ ~isRunning
           /\ Fields = NilFields
           /\ hnd[i] = NoHandles
           /\ plan[i] = <<>>
C2_Witness ==
    /\ pc[1] = "aborted" /\ OnlySession(1)
    /\ spc[1] = "done" /\ cap[1] = NilFields
    /\ hnd[1] = NoHandles /\ ~isRunning

\* C3: no two posted tasks are in flight at once.
C3_OneTaskInFlight == Cardinality({i \in StartIds : InFlight(i)}) <= 1

\* C4: once the executor's locked check has observed that the engine is not
\* running it posts nothing more: it leaves the loop, whatever items remain,
\* and its next step is the Stop() it deferred.
C4_NoPostAfterNotRunning ==
    [][\A i \in StartIds :
         /\ (pc[i] = "exCheck" /\ pc'[i] # "exCheck" /\ ~isRunning)
              => pc'[i] = "exStop"
         /\ pc[i] \in {"exStop", "finished"}
              => /\ pc'[i] \in {"exStop", "finished"}
                 /\ \A k \in DOMAIN plan'[i] : plan'[i][k] = "running" => plan[i][k] = "running"
                 /\ (spc'[ExecStop(i)] # spc[ExecStop(i)] \/ pc'[i] = pc[i])]_vars
C4_Witness ==
    \E i \in StartIds :
        /\ pc[i] = "exStop" /\ ~isRunning
        /\ idx[i] \in DOMAIN plan[i]
        /\ plan[i][idx[i]] = "pending"

\* C5: an acquisition step fails and no Stop() intervenes: when Start() has
\* returned every handle it created is destroyed, no handle field was
\* published, one error notification was emitted, the state is Idle and the
\* last notification is "session inactive".
C5_FailedAcquisitionRollsBack ==
    \A i \in StartIds :
        (OnlySession(i) /\ NoStopInvoked) =>
            /\ pc[i] \in {"emit", "acquire", "failEmit", "failed"} => Fields = NilFields
            /\ pc[i] \in {"failEmit", "failed"} =>
                 /\ hnd[i] = NoHandles
                 /\ errs[i] = 1
                 /\ ~isRunning
            /\ pc[i] = "failed" =>
                 events = [active |-> 1, inactive |-> 1, last |-> "inactive"]
C5_Witness ==
    /\ pc[1] = "failed" /\ OnlySession(1) /\ NoStopInvoked
    /\ iface = "agent" /\ errs[1] = 1 /\ events.last = "inactive"

\* C6: a Start() invoked in any state other than Idle, Stopping included (a
\* Stop() has begun and not finished its teardown), returns at once and
\* changes nothing.
C6_StartOnlyFromIdle ==
    [][\A j \in StartIds :
         (pc[j] = "idle" /\ pc'[j] # "idle"
            /\ (isRunning \/ \E p \in StopIds : spc[p] = "teardown"))
         => StartIsNoOp(j)]_vars

\* C7: a Stop() invoked when the engine is not running changes no state,
\* destroys nothing and emits nothing; no handle is ever destroyed twice.
C7_StopIdempotent ==
    /\ [](\A i \in StartIds : \A h \in HandleNames : hnd[i][h] # "dead2")
    /\ [][\A p \in StopIds :
            (spc[p] = "idle" /\ spc'[p] # "idle" /\ ~isRunning)
            => /\ spc'[p] = "noop"
               /\ UNCHANGED <<isRunning, fieldVars, hnd, cap, events, errs>>]_vars
C7_Witness ==
    /\ spc[1] = "done" /\ spc[2] = "noop"
    /\ pc[1] = "exWait" /\ events.inactive = 1

\* C8: a failed task changes nothing but its own status: the executor goes on
\* to the next item and, as long as no Stop() occurs, posts every item of the
\* plan, in plan order.
C8_FailureDoesNotAbortPlan ==
    /\ [](\A i \in StartIds :
            /\ \A k \in DOMAIN plan[i] :
                 plan[i][k] # "pending" =>
                     \A m \in 1..(k - 1) : plan[i][m] \in Completed
            /\ (pc[i] = "exStop" /\ spc[ExecStop(i)] = "idle"
                  /\ OnlySession(i) /\ NoStopInvoked)
                 => /\ idx[i] = Len(plan[i]) + 1
                    /\ Len(plan[i]) = nChecked
                    /\ \A k \in DOMAIN plan[i] : plan[i][k] \in Completed)
    /\ [][\A i \in StartIds :
            (pc[i] = "exWait" /\ pc'[i] # "exWait")
            => /\ pc'[i] = "exCheck"
               /\ idx'[i] = idx[i] + 1
               /\ \A k \in DOMAIN plan[i] : k > idx[i] => plan'[i][k] = plan[i][k]
               /\ UNCHANGED <<isRunning, fieldVars, hnd, stopVars, events, errs>>]_vars
C8_Witness ==
    \E i \in StartIds :
        /\ pc[i] = "exWait" /\ idx[i] = 2
        /\ plan[i][1] = "failed" /\ plan[i][2] = "running"
        /\ OnlySession(i) /\ NoStopInvoked

(***************************************************************************)
(* Properties of the config synchronizer                                   *)
(***************************************************************************)
KeysOf(option) == {option[i].name : i \in DOMAIN option}
EntriesOf(option, k) == SelectSeq(option, LAMBDA o : o.name = k)

\* C9: for every schema the validator accepts, initDefaultConfig followed at
\* once by syncConfigOptions returns changed = false and leaves every
\* task's option list as it was.
C9_InitThenSyncUnchanged ==
    (lastOp.op = "sync" /\ prevOp.op = "init") => (~changed /\ config = before)

RECURSIVE TreeKeys(_, _, _)
\* the keys of the option tree under the option names `names`, each select or
\* switch taking the case stored for it in vals, or its default when none is
TreeKeys(names, vals, defs) ==
    IF names = <<>> THEN {}
    ELSE
      LET n == Head(names)
          d == defs[n]
          chosen == IF Get(vals, n) # "" THEN Get(vals, n)
                    ELSE IF GetType(d) = "select" THEN selectDefault(d).value
                    ELSE switchDefault(d).value
          c == FindCase(d.cases, chosen)
          own == IF n \notin DOMAIN defs THEN {}
                 ELSE IF GetType(d) = "input"
                   THEN {n \o "." \o d.inputs[j].name : j \in DOMAIN d.inputs}
                   ELSE {n} \cup (IF c = 0 THEN {}
                                  ELSE TreeKeys(d.cases[c].option, vals, defs))
      IN own \cup TreeKeys(Tail(names), vals, defs)

\* the values initDefaultConfig gives key k
DefaultValues(k) ==
    {e.value : e \in {x \in UNION {Range(collectOptionDefaults(<<n>>, v2Loaded.option)) :
                                      n \in DOMAIN v2Loaded.option} : x.name = k}}

\* The last two calls: a SaveConfig that moved a select or switch of config task
\* prevOp.t to another of its cases, then the synchronizer; the option is one
\* that the schema task paired with the config task reaches.
CaseChanged ==
    /\ lastOp.op = "sync" /\ prevOp.op = "save"
    /\ prevOp.key \in DOMAIN v2Loaded.option
    /\ GetType(v2Loaded.option[prevOp.key]) \in {"select", "switch"}
    /\ prevOp.new # prevOp.old
    /\ FindCase(v2Loaded.option[prevOp.key].cases, prevOp.new) # 0
    /\ piTaskOf(before, v2Loaded, prevOp.t) # 0
    /\ prevOp.key \in TreeKeys(v2Loaded.task[piTaskOf(before, v2Loaded, prevOp.t)].option,
                              currentOptionsOf(before.task[prevOp.t].option),
                              v2Loaded.option)
\* the task's option list as stored when the synchronizer began, and as it left it
StoredList == before.task[prevOp.t].option
SyncedList == config.task[prevOp.t].option
\* the keys of the nested tree of the case now selected
NewCaseKeys ==
    LET opt == v2Loaded.option[prevOp.key]
    IN TreeKeys(opt.cases[FindCase(opt.cases, prevOp.new)].option,
                currentOptionsOf(SyncedList), v2Loaded.option)
\* the keys that belong to the nested tree of the case left, and to it alone
OldOnlyKeys ==
    LET opt == v2Loaded.option[prevOp.key]
        old == FindCase(opt.cases, prevOp.old)
        oldKeys == IF old = 0 THEN {}
                   ELSE TreeKeys(opt.cases[old].option,
                                 currentOptionsOf(StoredList), v2Loaded.option)
    IN oldKeys \ TreeKeys(v2Loaded.task[piTaskOf(before, v2Loaded, prevOp.t)].option,
                          currentOptionsOf(SyncedList), v2Loaded.option)

\* C10 as the claim states it: after a select or switch was moved to another
\* case and the synchronizer re-run, the list has no key that belongs only to
\* the old case's nested tree, and has every key of the new case's nested
\* tree with its default value.
C10_NewCaseKeysAtDefault ==
    CaseChanged =>
        /\ KeysOf(SyncedList) \cap OldOnlyKeys = {}
        /\ \A k \in NewCaseKeys :
             /\ k \in KeysOf(SyncedList)
             /\ \A e \in Range(EntriesOf(SyncedList, k)) : e.value \in DefaultValues(k)

\* C10 as the code has it: after a select or switch was moved to another case
\* and the synchronizer re-run, the list has no key that belongs only to the
\* old case's nested tree, and has every key of the new case's nested tree: a
\* key that was already stored keeps its stored entries, a key that was not
\* stored gets its default value.
C10_NewCaseKeysStoredOrDefault ==
    CaseChanged =>
        /\ KeysOf(SyncedList) \cap OldOnlyKeys = {}
        /\ \A k \in NewCaseKeys :
             /\ k \in KeysOf(SyncedList)
             /\ IF k \in KeysOf(StoredList)
                  THEN EntriesOf(SyncedList, k) = EntriesOf(StoredList, k)
                  ELSE \A e \in Range(EntriesOf(SyncedList, k)) :
                           e.value \in DefaultValues(k)
C10_Witness ==
    /\ CaseChanged /\ changed
    /\ prevOp.key = "Diff" /\ prevOp.old = "Easy" /\ prevOp.new = "Hard"
    /\ "Sw" \in KeysOf(StoredList) /\ "Sw" \in OldOnlyKeys
    /\ "Sub.x" \notin KeysOf(StoredList)
    /\ Opt("Sub.x", "5") \in Range(SyncedList)

(***************************************************************************)
(* Properties of single calls                                              *)
(***************************************************************************)
\* the names that match "yes" or "y" when case is ignored
YesLike == {"yes", "yeS", "yEs", "yES", "Yes", "YeS", "YEs", "YES", "y", "Y"}

\* C11: for a switch with no stored value both walkers select the first
\* declared case whose name is not a case-insensitive match of "yes" or "y"
\* and expand its nested options; if every case matches, the value is the
\* literal "No" and no nested option is expanded.
C11_SwitchDefaultIgnoresCase ==
    (ret.done /\ arg.fn = "walkSwitch") =>
        LET cases == arg.optionDefs["Sw"].cases
            S == {i \in DOMAIN cases : cases[i].name \notin YesLike}
            want == IF S = {} THEN <<Opt("Sw", "No")>>
                    ELSE <<Opt("Sw", cases[Min(S)].name)>>
                         \o initTaskOptions(cases[Min(S)].option, arg.optionDefs)
        IN ret.defaults = want /\ ret.expected = want

Unique(names) == \A i, j \in DOMAIN names : names[i] = names[j] => i = j
NamesOf(list) == [i \in DOMAIN list |-> list[i].name]
\* the constraints on an interface document
WellFormed(f) ==
    /\ f.interface_version = 2 /\ f.name # ""
    /\ Unique(NamesOf(f.controller))
    /\ \A c \in Range(f.controller) :
         /\ c.type \in {"Adb", "Win32"}
         /\ Cardinality({k \in {"short", "long", "raw"} :
                \/ k = "short" /\ c.display_short_side # "nil"
                \/ k = "long" /\ c.display_long_side # "nil"
                \/ k = "raw" /\ c.display_raw}) <= 1
    /\ Unique(NamesOf(f.resource))
    /\ \A r \in Range(f.resource) :
         /\ r.path # <<>>
         /\ Range(r.controller) \subseteq Range(NamesOf(f.controller))
    /\ \A t \in Range(f.task) :
         /\ t.entry # ""
         /\ Range(t.resource) \subseteq Range(NamesOf(f.resource))
         /\ Range(t.option) \subseteq DOMAIN f.option
    /\ \A n \in DOMAIN f.option :
         LET o == f.option[n] IN
         /\ o.type \in {"", "select", "switch"} =>
              /\ Len(o.cases) >= 1
              /\ (o.type = "switch" => Len(o.cases) = 2)
              /\ \A c \in Range(o.cases) : Range(c.option) \subseteq DOMAIN f.option
              /\ (o.default_case # "" => o.default_case \in Range(NamesOf(o.cases)))
         /\ o.type = "input" =>
              /\ Len(o.inputs) >= 1
              /\ \A x \in Range(o.inputs) : x.name # "" /\ x.verify # "("

\* C17: every interface document that ParseV2 accepts has version 2 and a
\* name, unique controller names of type Adb or Win32 with at most one display
\* setting, unique resource names with a path and resolvable controller
\* references, tasks with an entry and resolvable references, select and
\* switch options with at least one case (a switch exactly two), resolvable
\* nested references and a declared default case, and input options with at
\* least one named input whose pattern compiles.
C17_AcceptedInterfaceWellFormed ==
    (ret.done /\ arg.fn = "ParseV2" /\ ~ret.result.err) =>
        /\ arg.data.json
        /\ ret.result.iface = arg.data.doc
        /\ WellFormed(ret.result.iface)
\* an accepted document with two controllers, two resources, a task and options
C17_Witness ==
    /\ ret.done /\ arg.fn = "ParseV2" /\ ~ret.result.err
    /\ Len(ret.result.iface.controller) = 2
    /\ Len(ret.result.iface.resource) = 2
    /\ Len(ret.result.iface.task) >= 1
    /\ ~ret.result.iface.agent.nil
    /\ ret.result.iface.option["Mode"].type = "switch"

\* C16: when the interface file fails validation, Startup leaves the interface
\* unloaded and the config unset, and runs none of loadConfig,
\* initDefaultConfig, syncConfigOptions and saveConfig; the config file is as
\* it was.
C16_InvalidSchemaStopsStartup ==
    (ret.done /\ arg.fn = "Startup" /\ arg.interface.exists /\ arg.interface.json
       /\ ~WellFormed(arg.interface.doc)) =>
        /\ v2Loaded = NilInterface
        /\ config = NilConfig
        /\ ret.calls = <<>>
        /\ ret.file = arg.configFile
\* Startup has returned on an interface with two controllers named Dup although
\* a config file was there to load
C16_Witness ==
    /\ ret.done /\ arg.fn = "Startup" /\ arg.interface.exists /\ arg.interface.json
    /\ Len(arg.interface.doc.controller) = 2
    /\ arg.interface.doc.controller[1].name = "Dup"
    /\ arg.interface.doc.controller[2].name = "Dup"
    /\ arg.configFile.exists /\ arg.configFile.json
    /\ arg.configFile.content.task # <<>>

LoadFailed == ~arg.configFile.exists \/ ~arg.configFile.json
SaveRan == \E i \in DOMAIN ret.calls : ret.calls[i] = "saveConfig"
\* C19: after a startup that loaded the interface, saveConfig has run exactly
\* when the config file could not be loaded (the default config is then built
\* and saved) or the synchronized config differs from the loaded one; without
\* a save the file is as it was, and a save that can write leaves the config
\* of the service in the file.
C19_SavedIffDefaultedOrChanged ==
    (ret.done /\ arg.fn = "Startup" /\ v2Loaded # NilInterface) =>
        /\ SaveRan <=> (LoadFailed \/ config # loadConfig(arg.configFile).config)
        /\ LoadFailed => config = initDefaultConfig(v2Loaded)
        /\ ~LoadFailed => (changed <=> config # loadConfig(arg.configFile).config)
        /\ ~SaveRan => ret.file = arg.configFile
        /\ (SaveRan /\ arg.writable) => loadConfig(ret.file) = [err |-> FALSE, config |-> config]
\* a stored config with options that is in sync has been loaded and not saved
C19_Witness ==
    /\ ret.done /\ arg.fn = "Startup" /\ v2Loaded # NilInterface
    /\ ~LoadFailed /\ ~SaveRan /\ arg.writable
    /\ Len(config.task) = 2
    /\ \A t \in DOMAIN config.task :
         piTaskOf(config, v2Loaded, t) # 0 /\ Len(config.task[t].option) >= 2

\* the config Startup loaded from the file, before synchronization
LoadedConfig == loadConfig(arg.configFile).config
Resolves(n) == \E j \in DOMAIN v2Loaded.task : v2Loaded.task[j].name = n
\* the keys expected for stored task c: the walk of the option list of the
\* schema task of its name, seeded with the stored values
ExpectedKeys(c) ==
    LET j == Min({k \in DOMAIN v2Loaded.task : v2Loaded.task[k].name = c.name})
    IN KeysOf(getExpectedOptions(v2Loaded.task[j].option, currentOptionsOf(c.option),
                                 v2Loaded.option))
IsPrefix(a, b) == Len(a) <= Len(b) /\ SubSeq(b, 1, Len(a)) = a
\* C12: synchronization at startup keeps, for every stored task, its id, name,
\* checked flag and position, and keeps the selected controller and resource;
\* a task whose name no schema task has is left as it was; in a task that
\* resolves, every stored entry whose key is in the expected set is kept with
\* its stored value, in the stored order.
C12_SyncKeepsUnrelatedChoices ==
    (ret.done /\ arg.fn = "Startup" /\ v2Loaded # NilInterface /\ ~LoadFailed) =>
        /\ config.controller = LoadedConfig.controller
        /\ config.resource = LoadedConfig.resource
        /\ Len(config.task) = Len(LoadedConfig.task)
        /\ \A t \in DOMAIN LoadedConfig.task :
             LET old == LoadedConfig.task[t]
                 new == config.task[t]
             IN /\ new.id = old.id /\ new.name = old.name /\ new.checked = old.checked
                /\ ~Resolves(old.name) => new = old
                /\ Resolves(old.name) =>
                     IsPrefix(SelectSeq(old.option, LAMBDA o : o.name \in ExpectedKeys(old)),
                              new.option)
\* a config has been synchronized in which one task does not resolve and holds
\* options, and the other lost an entry and kept a choice of the user
C12_Witness ==
    /\ ret.done /\ arg.fn = "Startup" /\ v2Loaded # NilInterface /\ ~LoadFailed
    /\ changed
    /\ Len(config.task) = 2
    /\ ~Resolves(config.task[1].name) /\ config.task[1].option # <<>>
    /\ Resolves(config.task[2].name)
    /\ config.task[2].option # LoadedConfig.task[2].option
    /\ \E i \in DOMAIN config.task[2].option :
         config.task[2].option[i] = Opt("Diff", "Hard")

\* the inputs of the call and the placeholders they are referred to by
Inputs == arg.inputValues
Declared(t) == \E n \in DOMAIN Inputs : t = Ref(n)
NameOf(t) == SubSeq(t, 2, Len(t) - 1)
IsDecimal(t) ==
    LET d == IF t # <<>> /\ t[1] \in {"+", "-"} THEN Tail(t) ELSE t
    IN d # <<>> /\ \A i \in DOMAIN d : d[i] \in Digits
TrueTexts == {<<"t", "r", "u", "e">>, <<"T", "r", "u", "e">>, <<"1">>}
\* every placeholder of a declared input replaced by its value, left to right
RECURSIVE Subst(_)
Subst(t) ==
    IF t = <<>> THEN <<>>
    ELSE IF \E n \in DOMAIN Inputs : IsPrefix(Ref(n), t)
      THEN LET n == CHOOSE m \in DOMAIN Inputs : IsPrefix(Ref(m), t)
           IN Inputs[n].value \o Subst(SubSeq(t, Len(n) + 3, Len(t)))
    ELSE <<t[1]>> \o Subst(Tail(t))
NoBrace(t) == \A i \in DOMAIN t : t[i] \notin {"{", "}"}
\* no brace opens inside an open brace
Flat(t) ==
    \A i, j \in DOMAIN t :
        (i < j /\ t[i] = "{" /\ t[j] = "{") => \E k \in (i + 1)..(j - 1) : t[k] = "}"
\* a text that is not converted: it stays a string, the result of replacing the
\* placeholders input after input in some order, which is the result of
\* replacing them all at once when neither the text nests braces nor a value
\* or a name has one
Replaced(t, r) ==
    /\ DOMAIN r = {"str"}
    /\ \E o \in Orders(DOMAIN Inputs) : r.str = replaceEach(t, o, Inputs)
    /\ (Flat(t) /\ \A n \in DOMAIN Inputs : NoBrace(n) /\ NoBrace(Inputs[n].value))
          => r.str = Subst(t)
\* as stated: "{name}" of any declared input is converted, an int
\* always to an integer
LeafAsStated(t, r) ==
    IF Declared(t)
      THEN LET input == Inputs[NameOf(t)] IN
           CASE input.pipelineType = "int" ->
                  DOMAIN r = {"int"} /\ (IsDecimal(input.value) => r.int = Atoi(input.value).i)
             [] input.pipelineType = "bool" -> r = Bool(input.value \in TrueTexts)
             [] OTHER -> r = Str(input.value)
      ELSE Replaced(t, r)
\* as the code has it: only a name of letters, digits and underscores makes a
\* reference, and an int value that is no decimal integer stays a string
LeafAmended(t, r) ==
    IF Declared(t) /\ \A i \in DOMAIN NameOf(t) : IsWord(NameOf(t)[i])
      THEN LET input == Inputs[NameOf(t)] IN
           CASE input.pipelineType = "int" /\ IsDecimal(input.value) ->
                  r = GoInt(Atoi(input.value).i)
             [] input.pipelineType = "bool" -> r = Bool(input.value \in TrueTexts)
             [] OTHER -> r = Str(input.value)
      ELSE Replaced(t, r)
\* arrays keep their length and objects their keys, other values are untouched
RECURSIVE DescendsAsStated(_, _)
DescendsAsStated(v, r) ==
    CASE "str" \in DOMAIN v -> LeafAsStated(v.str, r)
      [] "arr" \in DOMAIN v ->
           /\ DOMAIN r = {"arr"} /\ Len(r.arr) = Len(v.arr)
           /\ \A i \in DOMAIN v.arr : DescendsAsStated(v.arr[i], r.arr[i])
      [] "obj" \in DOMAIN v ->
           /\ DOMAIN r = {"obj"} /\ DOMAIN r.obj = DOMAIN v.obj
           /\ \A k \in DOMAIN v.obj : DescendsAsStated(v.obj[k], r.obj[k])
      [] OTHER -> r = v
RECURSIVE DescendsAmended(_, _)
DescendsAmended(v, r) ==
    CASE "str" \in DOMAIN v -> LeafAmended(v.str, r)
      [] "arr" \in DOMAIN v ->
           /\ DOMAIN r = {"arr"} /\ Len(r.arr) = Len(v.arr)
           /\ \A i \in DOMAIN v.arr : DescendsAmended(v.arr[i], r.arr[i])
      [] "obj" \in DOMAIN v ->
           /\ DOMAIN r = {"obj"} /\ DOMAIN r.obj = DOMAIN v.obj
           /\ \A k \in DOMAIN v.obj : DescendsAmended(v.obj[k], r.obj[k])
      [] OTHER -> r = v

\* C14 (as stated): in the fragment of an input option a string that is exactly
\* "{name}" of a declared input becomes the value of the input converted by
\* its kind (int: the parsed integer; bool: true iff the value is "true",
\* "True" or "1"; otherwise the string), a string that only contains
\* placeholders has them replaced as text, and arrays and objects keep their
\* structure.
C14_PlaceholdersConverted ==
    (ret.done /\ arg.fn = "replaceVariables") =>
        /\ DOMAIN ret.result = DOMAIN arg.override
        /\ \A e \in DOMAIN arg.override :
             /\ DOMAIN ret.result[e] = DOMAIN arg.override[e]
             /\ \A k \in DOMAIN arg.override[e] :
                  DescendsAsStated(arg.override[e][k], ret.result[e][k])
\* C14 (amended): the same, where the name of the input consists of letters,
\* digits and underscores and an int value that is not a decimal integer is
\* left a string; "{name}" of any other declared name is replaced as text.
C14_WordPlaceholdersConverted ==
    (ret.done /\ arg.fn = "replaceVariables") =>
        /\ DOMAIN ret.result = DOMAIN arg.override
        /\ \A e \in DOMAIN arg.override :
             /\ DOMAIN ret.result[e] = DOMAIN arg.override[e]
             /\ \A k \in DOMAIN arg.override[e] :
                  DescendsAmended(arg.override[e][k], ret.result[e][k])
\* an array with "{x}", a number, "a{x}" and a nested array has been replaced
\* with x an int of value -15
C14_Witness ==
    /\ ret.done /\ arg.fn = "replaceVariables"
    /\ DOMAIN arg.override["A"]["p"] = {"arr"}
    /\ Len(arg.override["A"]["p"].arr) = 4
    /\ TextX \in DOMAIN Inputs
    /\ Inputs[TextX] = InputValue(<<"-", "1", "5">>, "int")
    /\ ret.result["A"]["p"].arr[1] = GoInt(0 - 15)
    /\ ret.result["A"]["p"].arr[3] = Str(<<"a", "-", "1", "5">>)

\* the stored value of an option of the call, the empty text if there is none
StoredValue(n) ==
    LET S == {i \in DOMAIN arg.configOptions : arg.configOptions[i].name = n}
    IN IF S = {} THEN <<>> ELSE arg.configOptions[Max(S)].value
\* the fragment of an input option with the placeholders of its inputs replaced
SubstitutedFragment(n) ==
    LET d == arg.optionDefs[n]
        vals == [m \in {d.inputs[i].name : i \in DOMAIN d.inputs} |->
                   LET inp == CHOOSE x \in Range(d.inputs) : x.name = m
                   IN InputValue(IF StoredValue(n \o <<".">> \o m) = <<>> THEN inp.default
                                 ELSE StoredValue(n \o <<".">> \o m),
                                 inp.pipeline_type)]
    IN replaceVariables(d.pipeline_override.doc, vals,
                        CHOOSE o \in Orders(DOMAIN vals) : TRUE)
\* the fragments of a list of option references in merge order: for each
\* reference in declaration order, the fragment of the selected case followed by
\* the fragments of the nested options of that case, or the fragment of the
\* input option
RECURSIVE OptionFragments(_)
OptionFragments(names) ==
    IF names = <<>> THEN <<>>
    ELSE LET n == Head(names)
             d == arg.optionDefs[n]
             sel == {i \in DOMAIN d.cases : d.cases[i].name = StoredValue(n)}
             c == d.cases[Min(sel)]
             own == IF d.type = "input"
                      THEN IF Decodes(d.pipeline_override) THEN <<SubstitutedFragment(n)>>
                           ELSE <<>>
                    ELSE IF sel = {} \/ StoredValue(n) = <<>> THEN <<>>
                    ELSE (IF Decodes(c.pipeline_override) THEN <<c.pipeline_override.doc>>
                          ELSE <<>>) \o OptionFragments(c.option)
         IN own \o OptionFragments(Tail(names))
\* every merged fragment of the call in merge order, the fragment of the task first
MergedFragments ==
    (IF Decodes(arg.v2Task.pipeline_override) THEN <<arg.v2Task.pipeline_override.doc>>
     ELSE <<>>) \o OptionFragments(arg.v2Task.option)
Sets(frag, e, k) == e \in DOMAIN frag /\ k \in DOMAIN frag[e]
Setters(e, k) == {i \in DOMAIN MergedFragments : Sets(MergedFragments[i], e, k)}

\* C13: the compiled override document has exactly the entries and keys that
\* some merged fragment sets, and the value of every (entry, key) is the whole
\* value of the last fragment in merge order that sets it: the task fragment
\* first, then the option references in declaration order, the fragment of a
\* selected case before the fragments of its nested options.
C13_LastFragmentWins ==
    (ret.done /\ arg.fn = "mergePipelineOverrides") =>
        /\ ret.result.nil <=> MergedFragments = <<>>
        /\ ~ret.result.nil =>
             /\ DOMAIN ret.result.doc = UNION {DOMAIN MergedFragments[i] : i \in DOMAIN MergedFragments}
             /\ \A e \in DOMAIN ret.result.doc :
                  /\ DOMAIN ret.result.doc[e] = {k \in {"p", "q", "r"} : Setters(e, k) # {}}
                  /\ \A k \in DOMAIN ret.result.doc[e] :
                       ret.result.doc[e][k] = MergedFragments[Max(Setters(e, k))][e][k]
\* a document compiled from four fragments: the task sets A.p to an object and
\* A.q, the selected case sets A.p again, the nested input option sets it to
\* the integer 7 and is merged once more as a reference of the task
C13_Witness ==
    /\ ret.done /\ arg.fn = "mergePipelineOverrides"
    /\ Len(MergedFragments) = 4
    /\ Cardinality(Setters("A", "p")) = 4
    /\ Setters("A", "q") = {1}
    /\ MergedFragments[1] = P2
    /\ ~ret.result.nil
    /\ ret.result.doc["A"]["p"] = GoInt(7)
    /\ ret.result.doc["A"]["q"] = One("2")

\* the schema tasks of the call that have the name of a stored task
TasksNamed(n) ==
    IF arg.v2Loaded.nil THEN {}
    ELSE {arg.v2Loaded.task[i] : i \in {j \in DOMAIN arg.v2Loaded.task :
                                          arg.v2Loaded.task[j].name = n}}
\* the positions in the config of the tasks that are checked and resolve
Planned ==
    {t \in DOMAIN arg.config.task :
        arg.config.task[t].checked /\ TasksNamed(arg.config.task[t].name) # {}}
\* the position of the k-th planned task
Nth(k) == CHOOSE t \in Planned : Cardinality({u \in Planned : u <= t}) = k
\* C15: the plan of GetTaskList has one item for every stored task that is
\* checked and whose name a schema task has, in the order of the config; the
\* item carries the id of the stored task and the entry of a schema task of
\* that name; the other stored tasks have no item.
C15_PlanOfCheckedResolvingTasks ==
    (ret.done /\ arg.fn = "GetTaskList") =>
        /\ Len(ret.tasks) = Cardinality(Planned)
        /\ \A k \in DOMAIN ret.tasks :
             /\ ret.tasks[k].id = arg.config.task[Nth(k)].id
             /\ \E t \in TasksNamed(arg.config.task[Nth(k)].name) :
                  ret.tasks[k].entry = t.entry
\* a plan of two items from a config of three tasks, the second of them
\* unchecked, or not resolving, and skipped
C15_Witness ==
    /\ ret.done /\ arg.fn = "GetTaskList"
    /\ Len(arg.config.task) = 3
    /\ Planned = {1, 3}
    /\ Len(ret.tasks) = 2
    /\ ret.tasks[1].entry # ret.tasks[2].entry

\* the language of the call has a translation map that was loaded
HasMap ==
    /\ arg.lang \in DOMAIN arg.files
    /\ arg.files[arg.lang].exists /\ arg.files[arg.lang].json
\* C18: ResolveString returns a text that is no reference (it does not start
\* with '$', or is '$' alone) as it is; for a language with a loaded
\* translation map it returns the translation of the key, or the text itself
\* when the map has no such key; for a language without a loaded map it
\* returns the key, the text without its first '$'.
C18_ResolveString ==
    (ret.done /\ arg.fn = "ResolveString") =>
        LET s == arg.s
            key == SubSeq(s, 2, Len(s))
        IN IF s = <<>> \/ s[1] # "$" \/ Len(s) = 1 THEN ret.result = s
           ELSE IF HasMap
             THEN IF key \in DOMAIN arg.files[arg.lang].translations
                    THEN ret.result = arg.files[arg.lang].translations[key]
                    ELSE ret.result = s
           ELSE ret.result = key /\ <<"$">> \o ret.result = s
\* "$k" has been resolved for a declared language whose translation file does
\* not decode, while another language has a translation of k
C18_Witness ==
    /\ ret.done /\ arg.fn = "ResolveString"
    /\ arg.s = <<"$">> \o KeyK
    /\ arg.lang = "zh" /\ DOMAIN arg.files = {"en", "zh"}
    /\ arg.files["zh"] = BadFile
    /\ arg.files["en"].exists /\ arg.files["en"].json
    /\ KeyK \in DOMAIN arg.files["en"].translations
    /\ ret.result = KeyK

\* the place of a step in the steps of the call, 0 if it was not made
StepOf(x) ==
    LET S == {i \in DOMAIN ret.steps : ret.steps[i] = x}
    IN IF S = {} THEN 0 ELSE Min(S)
Before(x, y) == (StepOf(x) # 0 /\ StepOf(y) # 0) => StepOf(x) < StepOf(y)
\* C20: after an acquisition that failed, what was built is released in the
\* reverse order of acquisition: the child process of the agent, the agent, the
\* resource, the controller, the task runner last; the error notification and
\* the "session inactive" notification come after the releases.
C20_RollbackInReverseOrder ==
    (ret.done /\ arg.fn = "handleInitError") =>
        /\ \A x \in HandleNames : arg.l[x] <=> StepOf(x) # 0
        /\ Before("agentCmd", "agent") /\ Before("agent", "res")
        /\ Before("res", "ctrl") /\ Before("ctrl", "tasker")
        /\ \A x \in HandleNames : Before(x, "app:error") /\ Before(x, "engine:running false")
        /\ Before("app:error", "engine:running false")

(***************************************************************************)
(* The order of the entries after synchronization, part_002:286-306        *)
(***************************************************************************)
\* the keys the option walker visits for stored task c, in the order of its visit
ExpectedOrder(c) ==
    LET j == Min({k \in DOMAIN v2Loaded.task : v2Loaded.task[k].name = c.name})
    IN NamesOf(getExpectedOptions(v2Loaded.task[j].option, currentOptionsOf(c.option),
                                  v2Loaded.option))
\* stored task t resolves and synchronization changed it
SyncChanged(t) ==
    /\ Resolves(LoadedConfig.task[t].name)
    /\ config.task[t] # LoadedConfig.task[t]
\* C22: after synchronization at startup has changed a task, the keys of its
\* option entries are in the order in which the option walker visits the task's
\* option references and nested options, whatever the order they were stored in.
C22_EntriesInDeclarationOrder ==
    (ret.done /\ arg.fn = "Startup" /\ v2Loaded # NilInterface /\ ~LoadFailed) =>
        \A t \in DOMAIN LoadedConfig.task :
            SyncChanged(t) => NamesOf(config.task[t].option) = ExpectedOrder(LoadedConfig.task[t])
\* a task stored with its entries in the walker's order has been changed by the
\* synchronization, which appended an entry after two entries it kept
C22_Witness ==
    /\ ret.done /\ arg.fn = "Startup" /\ v2Loaded # NilInterface /\ ~LoadFailed
    /\ \E t \in DOMAIN LoadedConfig.task :
         /\ SyncChanged(t)
         /\ Len(LoadedConfig.task[t].option) >= 2
         /\ Len(config.task[t].option) > Len(LoadedConfig.task[t].option)
         /\ NamesOf(config.task[t].option) = ExpectedOrder(LoadedConfig.task[t])
\* C22 for the tasks whose stored entries were a prefix of the walker's order:
\* the entries kept stay in the stored order and the missing ones follow in the
\* walker's order, so that the result is in the walker's order.
C22_OrderKeptWhenStoredInOrder ==
    (ret.done /\ arg.fn = "Startup" /\ v2Loaded # NilInterface /\ ~LoadFailed) =>
        \A t \in DOMAIN LoadedConfig.task :
            (SyncChanged(t) /\ IsPrefix(NamesOf(LoadedConfig.task[t].option),
                                        ExpectedOrder(LoadedConfig.task[t])))
              => NamesOf(config.task[t].option) = ExpectedOrder(LoadedConfig.task[t])

(***************************************************************************)
(* The two walkers on an empty map of stored values                        *)
(***************************************************************************)
\* C23: for every option map of a schema the validator accepts and every option
\* reference list, collectOptionDefaults yields the same sequence of (key,
\* value) entries as collectExpectedOptions with an empty currentValues map.
C23_DefaultsEqualExpectedOfEmpty ==
    (ret.done /\ arg.fn = "walkOptions") => ret.defaults = ret.expected
\* both walkers have walked a list of two references in which a select expands
\* a switch, all of whose cases are spelled as Yes and which falls back to "No",
\* and an input takes the zero value of its type
C23_Witness ==
    /\ ret.done /\ arg.fn = "walkOptions"
    /\ arg.optionNames = <<"Diff", "Sub">>
    /\ ret.defaults = <<Opt("Diff", "Easy"), Opt("Sw", "No"), Opt("Sub.x", "")>>
    /\ ret.expected = ret.defaults

(***************************************************************************)
(* Overlapping sessions, service.go:49-184 and 376-431                     *)
(***************************************************************************)
\* no Start(), no Stop() and no executor goroutine is in progress
NoCallInProgress ==
    /\ \A i \in StartIds : pc[i] \in {"idle", "noop", "failed", "aborted", "finished"}
    /\ \A p \in StopIds : spc[p] \in {"idle", "noop", "done"}
\* C24: whenever the state is not running and no Start(), Stop() or executor is
\* in progress, no backend handle is live: the five handle fields are nil and
\* every native object ever created has been destroyed exactly once.
C24_NoHandleLeftAtRest ==
    (~isRunning /\ NoCallInProgress) =>
        /\ Fields = NilFields
        /\ \A i \in StartIds : hnd[i] = NoHandles

\* Stop call p has taken the task runner t from the fields: its teardown is due
\* or done
StopTook(p, t) == spc[p] \in {"teardown", "done"} /\ cap[p]["tasker"] = t
\* executor i makes its PostTask in this step
Posts(i) == pc[i] = "exPost" /\ pc'[i] = "exWait"
\* C25: no PostTask is made on a task runner that a Stop() has begun to destroy:
\* at every PostTask of an executor, the task runner it copied under the read
\* lock is live and no Stop() has captured it.
C25_NoPostOnStoppedTasker ==
    [][\A i \in StartIds :
          Posts(i) => /\ hnd[exTasker[i]]["tasker"] = "live"
                      /\ \A p \in StopIds : ~StopTook(p, exTasker[i])]_vars

\* C26: sessions are isolated. The executor launched by Start call i posts only
\* to the task runner that call i published, and its deferred Stop(), when it
\* takes effect, captures the handles of call i: it never clears isRunning for,
\* or tears down, the session of another Start().
C26_SessionsIsolated ==
    \A i \in StartIds :
        /\ pc[i] \in {"exPost", "exWait"} => exTasker[i] = i
        /\ spc[ExecStop(i)] \in {"teardown", "done"} => cap[ExecStop(i)]["tasker"] = i

(***************************************************************************)
(* The engine:running notifications, service.go:61, 74 and 430             *)
(***************************************************************************)
\* The notifications emitted so far alternate, beginning with "active", exactly
\* when after each of them the number of "active" exceeds the number of
\* "inactive" by one if it was "active" and by nothing if it was "inactive".
Alternating ==
    events.active - events.inactive = (IF events.last = "active" THEN 1 ELSE 0)
\* C27: the engine:running notifications alternate strictly, beginning with
\* "session active"; and once every call has returned, the last notification
\* tells the current value of isRunning.
C27_NotificationsAlternate ==
    /\ Alternating
    /\ NoCallInProgress => (isRunning <=> events.last = "active")

(***************************************************************************)
(* Start() on the configs the system produces                              *)
(***************************************************************************)
\* C28: a Start() that passed the Idle check settles: it ends Running with its
\* handles published, or back in Idle with "session inactive" as its last
\* notification; it is never left active with no session. For every persisted
\* config, the generated default config included.
C28_StartSettles ==
    (ret.done /\ arg.fn = "Start") =>
        \/ ret.end.isRunning /\ ret.end.published /\ ret.end.returned
        \/ /\ ~ret.end.isRunning /\ ~ret.end.published /\ ret.end.returned
           /\ ret.end.notes[Len(ret.end.notes)] = "inactive"
\* C28 for the configs that have an Adb block, on interfaces whose Win32
\* controller has its Win32 block
C28_StartSettlesWithBlocks ==
    (/\ ret.done /\ arg.fn = "Start"
     /\ arg.piConf.adb # "nil"
     /\ \A i \in DOMAIN arg.iface.controller : arg.iface.controller[i].win32 # "nil"
                                               \/ arg.iface.controller[i].type # "Win32")
    => C28_StartSettles

(***************************************************************************)
(* Termination of the recursive walks                                      *)
(***************************************************************************)
\* the walk has entered an option that is already on its path
Overflowed == "overflow" \in DOMAIN ret /\ ret.overflow
\* C29: on every schema the validator accepts, each of the three recursive
\* walks (defaults, expected set, override compilation) returns.
C29_WalksTerminate == (arg.fn = "walk") ~> ret.done
\* C29 as a bound on the recursion: no walk nests deeper than MaxDepth.
C29_WalksStayShallow == (arg.fn = "walk") => ~Overflowed
\* the option lists reachable from names through every case of every option
\* do not contain an option that nests itself
Acyclic(defs) ==
    /\ "A" \notin Range(defs["A"].cases[1].option)
    /\ ~("B" \in Range(defs["A"].cases[1].option) /\ "A" \in Range(defs["B"].cases[2].option))
\* C29 for the schemas in which no option nests itself, directly or not
C29_AcyclicWalksTerminate == (arg.fn = "walk" /\ Acyclic(arg.optionDefs)) ~> ret.done

(***************************************************************************)
(* The config file under concurrent SaveConfig() calls                     *)
(***************************************************************************)
\* every SaveConfig() call that was made has returned nil, and one was made
SavesReturned ==
    /\ \A c \in SaveIds : savePc[c] \in {"idle", "returned"}
    /\ \E c \in SaveIds : savePc[c] = "returned"
\* C30: once the SaveConfig() calls made have all returned without error, the
\* config file holds exactly the config in memory.
C30_FileHoldsMemory ==
    SavesReturned => loadConfig(configFile) = [err |-> FALSE, config |-> config]
\* C30 for calls that do not overlap: a SaveConfig() that ran from its Lock to
\* its return while no other call was between its Lock and its return
C30_FileHoldsMemoryOfLoneCall ==
    (SavesReturned /\ Cardinality({c \in SaveIds : savePc[c] = "returned"}) = 1)
        => loadConfig(configFile) = [err |-> FALSE, config |-> config]

(***************************************************************************)
(* The lock of the engine and the backend calls                            *)
(***************************************************************************)
\* no goroutine is inside a backend call with the lock held
NoLockAcrossBackend ==
    \A g \in Goroutines : at[g] \in InBackend => (mu.w # g /\ g \notin mu.r)
\* C21: the lock of the engine is never held across a call into the backend
\* that may block; a Stop() or a GetIsRunning() that waits for the lock gets it
\* and proceeds, whether or not the backend calls of the other goroutines ever
\* return.
C21_LockNeverHeldAcrossBackend ==
    /\ []NoLockAcrossBackend
    /\ (at["stop"] = "line378") ~> (at["stop"] \in {"teardown", "done"})
    /\ (at["query"] = "line44") ~> (at["query"] = "done")
\* while one Start() is inside its acquisition and the executor of the other is
\* inside PostTask().Wait(), a GetIsRunning() has returned and the Stop() of the
\* presentation layer has passed the lock
C21_Witness ==
    /\ \E g, h \in Starters : at[g] = "acquiring" /\ at[h] = "posting"
    /\ at["query"] = "done"
    /\ at["stop"] \in {"teardown", "done"}
====
